---------------------------- MODULE Spec2Model ----------------------------
(***************************************************************************)
(* Remote routing core of the record directory: the gossip label          *)
(* announcer (server/routing/pubsub), the provider-notification           *)
(* reconciler and the remote search engine (routeRemote).                  *)
(*                                                                         *)
(* Strings are modelled as sequences of atoms.  The atom "/" is the path   *)
(* separator; every other atom stands for a run of characters without a    *)
(* separator.  The empty string is <<>>.                                   *)
(***************************************************************************)
EXTENDS Integers, Sequences, FiniteSets, TLC

(***************************************************************************)
(* Bounds of the model.                                                    *)
(***************************************************************************)
MaxQueries == 3
MaxStoreKeys == 3
MaxTime == 2
MaxEvents == 3
MaxErrors == 1

\* Messages the subscription handler consumes in the handler-and-callback
\* specification.
MaxMessages == 3

\* Puts the datastore refuses.
MaxFaults == 1

\* Runs of the cleanup task.
MaxRuns == 2

\* RemoteTTL, in ticks of the model's clock.
RemoteTTL == 1

(***************************************************************************)
(* Protocol constants (constants.go, not among the sources; the values     *)
(* are scaled down, the code only compares against them).                  *)
(***************************************************************************)
MaxLabelsPerAnnouncement == 3
MaxMessageSize == 33
DefaultMinMatchScore == 1
NotificationChannelSize == 2

None == "none"
Sep == "/"

\* The local node's PeerID (r.server.Host().ID().String()).
LocalPeerID == <<"p0">>

---------------------------------------------------------------------------
(***************************************************************************)
(* String helpers.                                                         *)
(***************************************************************************)
RECURSIVE Split(_)
\* strings.Split(s, "/"): the segments between separators, empty ones kept.
Split(s) ==
    IF s = <<>> THEN << <<>> >>
    ELSE LET rest == Split(Tail(s))
         IN  IF Head(s) = Sep
             THEN << <<>> >> \o rest
             ELSE << <<Head(s)>> \o Head(rest) >> \o Tail(rest)

RECURSIVE JoinSlash(_)
\* "/" + seg for every segment, concatenated.
JoinSlash(segs) ==
    IF segs = <<>> THEN <<>>
    ELSE <<Sep>> \o Head(segs) \o JoinSlash(Tail(segs))

\* datastore.NewKey(s).String(): a leading separator, no empty segment, no
\* trailing separator (path.Clean); the empty path is "/".
NewKey(s) ==
    LET segs == SelectSeq(Split(s), LAMBDA g : g # <<>>)
    IN  IF segs = <<>> THEN <<Sep>> ELSE JoinSlash(segs)

\* The label namespaces, in the order QueryAllNamespaces walks them.
Namespaces == <<"skills", "domains", "modules", "locators">>

NamespaceSet == {Namespaces[i] : i \in 1..Len(Namespaces)}

\* BuildEnhancedLabelKey(label, cid, peerID): "<label>/<cid>/<peerID>".
BuildEnhancedLabelKey(label, cid, peer) ==
    label \o <<Sep>> \o cid \o <<Sep>> \o peer

\* ParseEnhancedLabelKey(key): [ok, label, cid, peer].  The key must start
\* with a separator and a known namespace and hold at least namespace,
\* one label segment, cid and peer; the last two segments are cid and peer.
ParseEnhancedLabelKey(key) ==
    LET parts == Split(key)
        n == Len(parts)
        bad == [ok |-> FALSE, label |-> <<>>, cid |-> <<>>, peer |-> <<>>]
    IN  IF key = <<>> \/ Head(key) # Sep THEN bad
        ELSE IF n < 5 THEN bad
        ELSE IF parts[2] \notin {<<ns>> : ns \in NamespaceSet} THEN bad
        ELSE IF parts[n] = <<>> \/ parts[n - 1] = <<>> THEN bad
        ELSE [ok |-> TRUE,
              label |-> JoinSlash(SubSeq(parts, 2, n - 2)),
              cid |-> parts[n - 1],
              peer |-> parts[n]]


---------------------------------------------------------------------------
(***************************************************************************)
(* The values the model draws its inputs from.                             *)
(***************************************************************************)
P1 == <<"p1">>
P2 == <<"p2">>
C1 == <<"c1">>
C2 == <<"c2">>
LSkill == <<Sep, "skills", Sep, "AI">>
LDomain == <<Sep, "domains", Sep, "research">>

QSkill == [type |-> "skills", value |-> <<"AI">>]
QDomain == [type |-> "domains", value |-> <<"research">>]
QueryValues == {QSkill, QDomain}

\* A key under the skills prefix that is too short to hold label, cid and peer.
ShortKey == <<Sep, "skills", Sep, "c1", Sep, "p1">>

\* The keys a store of the search specification is drawn from: remote
\* entries of two peers (one CID held by both), an owned entry, a short key.
SearchKeys ==
    { NewKey(BuildEnhancedLabelKey(LSkill, C1, P1)),
      NewKey(BuildEnhancedLabelKey(LSkill, C2, P2)),
      NewKey(BuildEnhancedLabelKey(LDomain, C2, P2)),
      NewKey(BuildEnhancedLabelKey(LDomain, C1, P2)),
      NewKey(BuildEnhancedLabelKey(LSkill, C1, LocalPeerID)),
      ShortKey }

SeqsUpTo(S, n) == UNION {[1..k -> S] : k \in 0..n}

\* limit: unlimited, one.  min_match_score: unset, one, two.
LimitValues == {0, 1}
MinScoreValues == {0, 1, 2}

SearchRequests ==
    [queries : SeqsUpTo(QueryValues, MaxQueries),
     limit : LimitValues,
     min_match_score : MinScoreValues]

\* labels.LabelMetadata
Metadata(ts, seen) == [timestamp |-> ts, last_seen |-> seen]

VARIABLES
    store,          \* the datastore: cleaned key -> value
    \* --- one Search call ---
    sReq,           \* the SearchRequest of the call
    sPc,            \* position of the search call and its goroutine
    sQueries,       \* deduplicatedQueries handed to searchRemoteRecords
    sMin,           \* minMatchScore handed to searchRemoteRecords
    sEntries,       \* entries of the scan not yet visited by the loop
    processedCIDs,  \* searchRemoteRecords.processedCIDs
    processedCount, \* searchRemoteRecords.processedCount
    outCh,          \* the response the goroutine is blocked sending, if any
    emitted,        \* the responses the consumer has received, in order
    ctxDone,        \* the context passed to Search is cancelled
    storeChanged,   \* the store was written or deleted from during the call
    \* --- one application of Validate ---
    vAnn,           \* the announcement
    vSide,          \* "publish" (PublishLabels) or "receive" (Unmarshal...)
    vResult,        \* "pending", "ok" or the error
    \* --- one announcement on its way over the wire ---
    wAnn,           \* the announcement the sender holds
    wPc,            \* "marshal", "refused", "wire" or "done"
    wLocal,         \* the data on the wire is what Marshal returned
    wData,          \* the data on the wire
    wErr,           \* "ok" or the error of the last step
    wOut,           \* the announcement the receiver decoded
    \* --- the node: publish, gossip handler, provider-notification handler ---
    now,            \* the node's clock (time.Now())
    gossipEnabled,  \* r.pubsubManager != nil
    topicOwn,       \* own messages the subscription has yet to deliver
    pub,            \* the outcome of the last Publish, if any
    provided,       \* the CIDs announced on the DHT
    gPc,            \* position of the gossip handler
    gAnn,           \* the announcement handleLabelAnnouncement works on
    gNow,           \* its reading of the clock
    gLabels,        \* the labels it has yet to store
    notifyCh,       \* r.notifyCh
    nPc,            \* position of handleNotify
    nNotif,         \* the notification handleCIDProviderNotification works on
    nNow,           \* its reading of the clock
    nWork,          \* the entries or labels it has yet to store
    pulled,         \* the peers Pull was invoked with
    rxWritten,      \* the label keys the receive paths have written
    events,         \* number of inputs the node has taken
    coreDone,       \* the core context (ctx of newRemote) is cancelled
    subCancelled,   \* Manager.Close() has cancelled the subscription
    gErrors,        \* errors of sub.Next the gossip handler has logged
    \* --- history, for stating properties ---
    gLast,          \* the announcement last handled, when, and when before
    nSent,          \* the notifications put in notifyCh, in order
    nHandled,       \* the notifications handleNotify took, in order
    \* --- the remote label cleanup task ---
    cPc,            \* "idle", "wait" (for the ticker) or "delete"
    cNow,           \* the clock reading of the run
    cWork,          \* the keys the run has yet to delete
    cBefore,        \* history: the store when the run scanned it
    cFailed,        \* history: the keys whose delete failed in the run
    cRuns,          \* number of runs started
    \* --- the datastore's failures ---
    dFaults,        \* number of puts the datastore will still refuse
    dFailed,        \* history: the keys whose put was refused
    \* --- one call of QueryAllNamespaces ---
    qFailing,       \* the namespaces whose prefix query fails
    qCancelAt,      \* the namespace before which the context is cancelled, or 0
    qCtxErr,        \* ctx.Err() once the context is cancelled
    qPc,            \* "idle" or "done"
    qOut,           \* what the call returned
    \* --- the Manager's subscription handler and its callback ---
    hCallback,      \* m.onLabelAnnouncement has been written
    hVisible,       \* the handler goroutine has read the written callback
    hSeen           \* the messages the handler has consumed, in order

searchVars == <<sReq, sPc, sQueries, sMin, sEntries, processedCIDs,
                processedCount, outCh, emitted, ctxDone, storeChanged>>

validateVars == <<vAnn, vSide, vResult>>

wireVars == <<wAnn, wPc, wLocal, wData, wErr, wOut>>

nodeVars == <<now, gossipEnabled, topicOwn, pub, provided, gPc, gAnn, gNow,
              gLabels, notifyCh, nPc, nNotif, nNow, nWork, pulled, rxWritten,
              events, coreDone, subCancelled, gErrors, gLast, nSent, nHandled>>

lifeVars == <<coreDone, subCancelled, gErrors>>

cleanupVars == <<cPc, cNow, cWork, cBefore, cFailed, cRuns>>

faultVars == <<dFaults, dFailed>>

scanVars == <<qFailing, qCancelAt, qCtxErr, qPc, qOut>>

hookVars == <<hCallback, hVisible, hSeen>>

vars == <<store, searchVars, validateVars, wireVars, nodeVars, cleanupVars,
          faultVars, scanVars, hookVars>>

\* The announcement of a handler that holds none.
NoAnnouncement == [cid |-> <<>>, peer_id |-> <<>>, labels |-> <<>>, timestamp |-> 0]

\* The history before any announcement was handled.
NoLast == [ann |-> NoAnnouncement, now |-> 0, prev |-> 0]

\* The values of the variables of a part that a specification leaves out.
SearchIdle ==
    /\ sReq = [queries |-> <<>>, limit |-> 0, min_match_score |-> 0]
    /\ sPc = "idle"
    /\ sQueries = <<>>
    /\ sMin = 0
    /\ sEntries = {}
    /\ processedCIDs = {}
    /\ processedCount = 0
    /\ outCh = <<>>
    /\ emitted = <<>>
    /\ ctxDone = FALSE
    /\ storeChanged = FALSE

ValidateIdle ==
    /\ vAnn = NoAnnouncement
    /\ vSide = "idle"
    /\ vResult = "idle"

WireIdle ==
    /\ wAnn = NoAnnouncement
    /\ wPc = "idle"
    /\ wLocal = FALSE
    /\ wData = <<>>
    /\ wErr = "idle"
    /\ wOut = NoAnnouncement

CleanupIdle ==
    /\ cPc = "idle"
    /\ cNow = 0
    /\ cWork = {}
    /\ cBefore = <<>>
    /\ cFailed = {}
    /\ cRuns = 0

\* A datastore that refuses no put.
NoFaults ==
    /\ dFaults = 0
    /\ dFailed = {}

\* The callback installed and seen, no message consumed.
HookIdle ==
    /\ hCallback = TRUE
    /\ hVisible = TRUE
    /\ hSeen = <<>>

ScanIdle ==
    /\ qFailing = {}
    /\ qCancelAt = 0
    /\ qCtxErr = "none"
    /\ qPc = "idle"
    /\ qOut = <<>>

NodeIdle ==
    /\ now = 1
    /\ gossipEnabled = FALSE
    /\ topicOwn = {}
    /\ pub = <<>>
    /\ provided = {}
    /\ gPc = "idle"
    /\ gAnn = NoAnnouncement
    /\ gNow = 0
    /\ gLabels = <<>>
    /\ notifyCh = <<>>
    /\ nPc = "idle"
    /\ nNotif = <<>>
    /\ nNow = 0
    /\ nWork = <<>>
    /\ pulled = {}
    /\ rxWritten = {}
    /\ events = 0
    /\ coreDone = FALSE
    /\ subCancelled = FALSE
    /\ gErrors = 0
    /\ gLast = NoLast
    /\ nSent = <<>>
    /\ nHandled = <<>>

---------------------------------------------------------------------------
(***************************************************************************)
(* Search engine (routeRemote.Search and its helpers).                     *)
(***************************************************************************)
RECURSIVE deduplicateQueries(_)
\* deduplicateQueries: the first occurrence of every query, in order.
deduplicateQueries(qs) ==
    IF qs = <<>> THEN <<>>
    ELSE LET front == deduplicateQueries(SubSeq(qs, 1, Len(qs) - 1))
             last == qs[Len(qs)]
         IN  IF \E i \in 1..Len(front) : front[i] = last
             THEN front
             ELSE Append(front, last)

\* Mutant: the original query list is handed on.
SearchQueries_original(req) == req.queries

\* The queries Search hands to searchRemoteRecords.
SearchQueries(req) == deduplicateQueries(req.queries)

\* Mutant: the requested threshold is handed on as it is.
SearchMinMatchScore_raw(req) == req.min_match_score

\* The threshold Search hands to searchRemoteRecords.
SearchMinMatchScore(req) ==
    IF req.min_match_score < DefaultMinMatchScore
    THEN DefaultMinMatchScore
    ELSE req.min_match_score

\* safeIntToUint32: saturates into the unsigned 32-bit range.  The upper
\* end (2^32 - 1) lies beyond every length a bounded query list reaches, so
\* only the lower end is written out.
safeIntToUint32(n) ==
    IF n < 0 THEN 0 ELSE n

\* QueryMatchesLabels: the query's label "/<type>/<value>" is among labels.
QueryMatchesLabels(q, labels) ==
    (<<Sep, q.type, Sep>> \o q.value) \in labels

\* The keys dstore.Query returns for Prefix "/<ns>/".
QueryPrefix(st, ns) ==
    {k \in DOMAIN st : Len(k) > 3 /\ SubSeq(k, 1, 3) = <<Sep, ns, Sep>>}

\* QueryAllNamespaces: [ok, keys]; fails when the context is cancelled.
QueryAllNamespaces(st, cancelled) ==
    IF cancelled THEN [ok |-> FALSE, keys |-> {}]
    ELSE [ok |-> TRUE, keys |-> UNION {QueryPrefix(st, ns) : ns \in NamespaceSet}]

\* Mutant: the labels of the CID at any peer.
getRemoteRecordLabels_anyPeer(st, cancelled, cid, peer) ==
    LET q == QueryAllNamespaces(st, cancelled)
    IN  IF ~q.ok THEN {}
        ELSE {ParseEnhancedLabelKey(k).label :
                k \in {x \in q.keys : /\ ParseEnhancedLabelKey(x).ok
                                      /\ ParseEnhancedLabelKey(x).cid = cid}}

\* getRemoteRecordLabels: the labels of every parseable key of (cid, peer).
getRemoteRecordLabels(st, cancelled, cid, peer) ==
    LET q == QueryAllNamespaces(st, cancelled)
    IN  IF ~q.ok THEN {}
        ELSE {ParseEnhancedLabelKey(k).label :
                k \in {x \in q.keys : /\ ParseEnhancedLabelKey(x).ok
                                      /\ ParseEnhancedLabelKey(x).cid = cid
                                      /\ ParseEnhancedLabelKey(x).peer = peer}}

\* calculateMatchScore: [queries, score].
calculateMatchScore(st, cancelled, cid, queries, peer) ==
    IF Len(queries) = 0 THEN [queries |-> <<>>, score |-> 0]
    ELSE LET labels == getRemoteRecordLabels(st, cancelled, cid, peer)
         IN  IF labels = {} THEN [queries |-> <<>>, score |-> 0]
             ELSE LET m == SelectSeq(queries, LAMBDA q : QueryMatchesLabels(q, labels))
                  IN  [queries |-> m, score |-> safeIntToUint32(Len(m))]

\* Mutant: no entry is taken for a local one.
IsLocalEntry_never(peer) == FALSE

\* The remote-only filter of the search loop.
IsLocalEntry(peer) == peer = LocalPeerID

\* Mutant: the CID is not recorded.
MarkProcessed_forget(done, cid) == done

\* processedCIDs[keyCID] = true
MarkProcessed(done, cid) == done \cup {cid}

\* Mutant: the limit is reached one result late.
LimitReached_late(limit, count) == limit > 0 /\ count > limit

\* limitInt > 0 && processedCount >= limitInt
LimitReached(limit, count) == limit > 0 /\ count >= limit


\* Position of a key's namespace in the walk of QueryAllNamespaces.
NsIndex(k) == CHOOSE i \in 1..Len(Namespaces) : Namespaces[i] = k[2]

\* The entries the loop may visit next: namespaces are walked in order, the
\* order inside one namespace is the datastore's.
NextEntries(S) == {k \in S : \A j \in S : NsIndex(k) <= NsIndex(j)}

SearchResponse(cid, peer, m) ==
    [cid |-> cid, peer |-> peer, match_queries |-> m.queries, match_score |-> m.score]

SearchStores ==
    UNION {[K -> {Metadata(1, 1)}] :
             K \in {S \in SUBSET SearchKeys : Cardinality(S) <= MaxStoreKeys}}

SearchInit ==
    /\ store \in SearchStores
    /\ sReq \in SearchRequests
    /\ sPc = "call"
    /\ sQueries = <<>>
    /\ sMin = 0
    /\ sEntries = {}
    /\ processedCIDs = {}
    /\ processedCount = 0
    /\ outCh = <<>>
    /\ emitted = <<>>
    /\ ctxDone = FALSE
    /\ storeChanged = FALSE
    /\ ValidateIdle
    /\ WireIdle
    /\ CleanupIdle
    /\ NoFaults
    /\ ScanIdle
    /\ HookIdle
    /\ NodeIdle

\* routeRemote.Search: deduplicate, normalise the threshold, start the goroutine.
Search ==
    /\ sPc = "call"
    /\ sQueries' = SearchQueries(sReq)
    /\ sMin' = SearchMinMatchScore(sReq)
    /\ sPc' = "scan"
    /\ UNCHANGED <<store, sReq, sEntries, processedCIDs, processedCount,
                   outCh, emitted, ctxDone, storeChanged>>
    /\ UNCHANGED <<validateVars, wireVars, faultVars, scanVars, hookVars, cleanupVars, nodeVars>>

\* searchRemoteRecords up to the loop: the scan of all namespaces; on an
\* error the goroutine returns and the deferred close runs.
SearchScan ==
    /\ sPc = "scan"
    /\ LET q == QueryAllNamespaces(store, ctxDone)
       IN  IF q.ok
           THEN sEntries' = q.keys /\ sPc' = "loop"
           ELSE sEntries' = {} /\ sPc' = "closed"
    /\ UNCHANGED <<store, sReq, sQueries, sMin, processedCIDs, processedCount,
                   outCh, emitted, ctxDone, storeChanged>>
    /\ UNCHANGED <<validateVars, wireVars, faultVars, scanVars, hookVars, cleanupVars, nodeVars>>

\* The loop is over (no entry left, or the limit reached at the loop head):
\* searchRemoteRecords returns and the deferred close(outCh) runs.
SearchLoopEnd ==
    /\ sPc = "loop"
    /\ sEntries = {} \/ LimitReached(sReq.limit, processedCount)
    /\ sPc' = "closed"
    /\ UNCHANGED <<store, sReq, sQueries, sMin, sEntries, processedCIDs,
                   processedCount, outCh, emitted, ctxDone, storeChanged>>
    /\ UNCHANGED <<validateVars, wireVars, faultVars, scanVars, hookVars, cleanupVars, nodeVars>>

\* One iteration of the loop up to the send on outCh.
SearchLoopEntry ==
    /\ sPc = "loop"
    /\ sEntries # {}
    /\ ~LimitReached(sReq.limit, processedCount)
    /\ \E k \in NextEntries(sEntries) :
         LET p == ParseEnhancedLabelKey(k)
             m == calculateMatchScore(store, ctxDone, p.cid, sQueries, p.peer)
         IN  /\ sEntries' = sEntries \ {k}
             /\ IF /\ p.ok
                   /\ ~IsLocalEntry(p.peer)
                   /\ p.cid \notin processedCIDs
                   /\ m.score >= sMin
                THEN /\ outCh' = <<SearchResponse(p.cid, p.peer, m)>>
                     /\ sPc' = "send"
                ELSE /\ outCh' = outCh
                     /\ sPc' = "loop"
    /\ UNCHANGED <<store, sReq, sQueries, sMin, processedCIDs, processedCount,
                   emitted, ctxDone, storeChanged>>
    /\ UNCHANGED <<validateVars, wireVars, faultVars, scanVars, hookVars, cleanupVars, nodeVars>>

\* The consumer receives from outCh; the goroutine's send completes, it
\* records the CID and leaves the loop when the limit is reached.
SearchRecv ==
    /\ sPc = "send"
    /\ emitted' = Append(emitted, outCh[1])
    /\ outCh' = <<>>
    /\ processedCIDs' = MarkProcessed(processedCIDs, outCh[1].cid)
    /\ processedCount' = processedCount + 1
    /\ sPc' = IF LimitReached(sReq.limit, processedCount + 1) THEN "closed" ELSE "loop"
    /\ UNCHANGED <<store, sReq, sQueries, sMin, sEntries, ctxDone, storeChanged>>
    /\ UNCHANGED <<validateVars, wireVars, faultVars, scanVars, hookVars, cleanupVars, nodeVars>>

\* The caller cancels the context it passed to Search.
SearchCancel ==
    /\ sPc \in {"scan", "loop", "send"}
    /\ ~ctxDone
    /\ ctxDone' = TRUE
    /\ UNCHANGED <<store, sReq, sPc, sQueries, sMin, sEntries, processedCIDs,
                   processedCount, outCh, emitted, storeChanged>>
    /\ UNCHANGED <<validateVars, wireVars, faultVars, scanVars, hookVars, cleanupVars, nodeVars>>

\* Another task writes an entry while the call runs (a receive path).
SearchStorePut ==
    /\ sPc = "loop"
    /\ ~storeChanged
    /\ \E k \in SearchKeys \ DOMAIN store :
         store' = [x \in DOMAIN store \cup {k} |->
                     IF x = k THEN Metadata(1, 1) ELSE store[x]]
    /\ storeChanged' = TRUE
    /\ UNCHANGED <<sReq, sPc, sQueries, sMin, sEntries, processedCIDs,
                   processedCount, outCh, emitted, ctxDone>>
    /\ UNCHANGED <<validateVars, wireVars, faultVars, scanVars, hookVars, cleanupVars, nodeVars>>

\* Another task deletes an entry while the call runs (the cleanup task).
SearchStoreDelete ==
    /\ sPc = "loop"
    /\ ~storeChanged
    /\ \E k \in DOMAIN store :
         store' = [x \in DOMAIN store \ {k} |-> store[x]]
    /\ storeChanged' = TRUE
    /\ UNCHANGED <<sReq, sPc, sQueries, sMin, sEntries, processedCIDs,
                   processedCount, outCh, emitted, ctxDone>>
    /\ UNCHANGED <<validateVars, wireVars, faultVars, scanVars, hookVars, cleanupVars, nodeVars>>

SearchNext ==
    \/ Search
    \/ SearchScan
    \/ SearchLoopEnd
    \/ SearchLoopEntry
    \/ SearchRecv
    \/ SearchCancel
    \/ SearchStorePut
    \/ SearchStoreDelete

SearchSpec == SearchInit /\ [][SearchNext]_vars

\* The steps the search goroutine takes by itself.  A send on outCh is not
\* among them: it completes only when the consumer receives.
SearchGoroutine ==
    \/ Search
    \/ SearchScan
    \/ SearchLoopEnd
    \/ SearchLoopEntry

\* Calls of at most one query, for the liveness of the goroutine.
SearchLiveInit ==
    /\ SearchInit
    /\ Len(sReq.queries) <= 1
    /\ sReq.min_match_score <= 1

\* The call with its caller and consumer, on a store no one else touches.
SearchLiveNext ==
    \/ Search
    \/ SearchScan
    \/ SearchLoopEnd
    \/ SearchLoopEntry
    \/ SearchRecv
    \/ SearchCancel

\* The scheduler runs a goroutine that can take a step; the consumer is
\* free to stop receiving.
SearchLiveSpec ==
    SearchLiveInit /\ [][SearchLiveNext]_vars /\ WF_vars(SearchGoroutine)


---------------------------------------------------------------------------
(***************************************************************************)
(* The wire format (pubsub.LabelAnnouncement).  The zero time is 0.        *)
(***************************************************************************)
\* Mutant: an announcement with exactly MaxLabelsPerAnnouncement labels is
\* taken for one with too many.
Validate_offByOne(a) ==
    IF a.cid = <<>> THEN "missing CID"
    ELSE IF a.peer_id = <<>> THEN "missing PeerID"
    ELSE IF Len(a.labels) = 0 THEN "no labels provided"
    ELSE IF Len(a.labels) >= MaxLabelsPerAnnouncement THEN "too many labels"
    ELSE IF a.timestamp = 0 THEN "missing timestamp"
    ELSE "ok"

\* LabelAnnouncement.Validate: "ok" or the first error.
Validate(a) ==
    IF a.cid = <<>> THEN "missing CID"
    ELSE IF a.peer_id = <<>> THEN "missing PeerID"
    ELSE IF Len(a.labels) = 0 THEN "no labels provided"
    ELSE IF Len(a.labels) > MaxLabelsPerAnnouncement THEN "too many labels"
    ELSE IF a.timestamp = 0 THEN "missing timestamp"
    ELSE "ok"

\* The string delimiter and the escape character of the encoding.
Quote == "\""
Backslash == "\\"

\* The text of a time.Time (RFC 3339 with nanoseconds): one text per
\* instant, the zero time included.
TimeTexts == <<"T0", "T1", "T2", "T3", "T4">>

\* Time.MarshalJSON
TimeText(t) == TimeTexts[t + 1]

\* A string's content with the delimiter and the escape character escaped.
RECURSIVE jsonEscape(_)
jsonEscape(s) ==
    IF s = <<>> THEN <<>>
    ELSE (IF Head(s) \in {Quote, Backslash}
          THEN <<Backslash, Head(s)>>
          ELSE <<Head(s)>>) \o jsonEscape(Tail(s))

\* A string as a JSON string.
jsonString(s) == <<Quote>> \o jsonEscape(s) \o <<Quote>>

RECURSIVE jsonStrings(_)
jsonStrings(strs) ==
    IF strs = <<>> THEN <<>>
    ELSE jsonString(Head(strs)) \o jsonStrings(Tail(strs))

\* Mutant: strings are written without escaping.
jsonMarshal_noEscape(a) ==
    <<"{", "cid", Quote>> \o a.cid \o <<Quote>>
    \o <<"peer_id", Quote>> \o a.peer_id \o <<Quote>>
    \o <<"labels", "[">> \o jsonStrings(a.labels) \o <<"]">>
    \o <<"timestamp", TimeText(a.timestamp), "}">>

\* json.Marshal of a LabelAnnouncement: the fields in declaration order
\* under their json names; an atom counts as one byte.
jsonMarshal(a) ==
    <<"{", "cid">> \o jsonString(a.cid)
    \o <<"peer_id">> \o jsonString(a.peer_id)
    \o <<"labels", "[">> \o jsonStrings(a.labels) \o <<"]">>
    \o <<"timestamp", TimeText(a.timestamp), "}">>

\* A failed read.
NoRead == [ok |-> FALSE, val |-> <<>>, next |-> 0]

\* The content of the JSON string whose opening delimiter was read, from
\* position i of d on: the content unescaped and the position after the
\* closing delimiter.
RECURSIVE scanString(_, _, _)
scanString(d, i, acc) ==
    IF i > Len(d) THEN NoRead
    ELSE IF d[i] = Quote THEN [ok |-> TRUE, val |-> acc, next |-> i + 1]
    ELSE IF d[i] = Backslash
         THEN IF i + 1 <= Len(d) /\ d[i + 1] \in {Quote, Backslash}
              THEN scanString(d, i + 2, Append(acc, d[i + 1]))
              ELSE NoRead
    ELSE scanString(d, i + 1, Append(acc, d[i]))

\* The JSON string at position i of d.
readString(d, i) ==
    IF i <= Len(d) /\ d[i] = Quote THEN scanString(d, i + 1, <<>>) ELSE NoRead

\* The elements of the JSON array of strings whose opening bracket was
\* read, from position i of d on.
RECURSIVE readStrings(_, _, _)
readStrings(d, i, acc) ==
    IF i > Len(d) THEN NoRead
    ELSE IF d[i] = "]" THEN [ok |-> TRUE, val |-> acc, next |-> i + 1]
    ELSE LET r == readString(d, i)
         IN  IF r.ok THEN readStrings(d, r.next, Append(acc, r.val)) ELSE NoRead

\* d holds the token x at position i.
tokenAt(d, i, x) == i >= 1 /\ i <= Len(d) /\ d[i] = x

\* json.Unmarshal into a LabelAnnouncement, for data that carries the four
\* fields in the order Marshal writes them; anything else is a syntax error.
jsonUnmarshal(d) ==
    LET bad == [ok |-> FALSE, ann |-> NoAnnouncement]
        c == readString(d, 3)
        p == readString(d, c.next + 1)
        l == readStrings(d, p.next + 2, <<>>)
    IN  IF ~(tokenAt(d, 1, "{") /\ tokenAt(d, 2, "cid") /\ c.ok) THEN bad
        ELSE IF ~(tokenAt(d, c.next, "peer_id") /\ p.ok) THEN bad
        ELSE IF ~(tokenAt(d, p.next, "labels") /\ tokenAt(d, p.next + 1, "[") /\ l.ok) THEN bad
        ELSE IF ~(/\ tokenAt(d, l.next, "timestamp")
                  /\ l.next + 2 = Len(d)
                  /\ \E t \in DOMAIN TimeTexts : d[l.next + 1] = TimeTexts[t]
                  /\ d[l.next + 2] = "}") THEN bad
        ELSE [ok |-> TRUE,
              ann |-> [cid |-> c.val, peer_id |-> p.val, labels |-> l.val,
                       timestamp |-> (CHOOSE t \in DOMAIN TimeTexts :
                                        d[l.next + 1] = TimeTexts[t]) - 1]]

\* len(data) of the encoding of a.
EncodedSize(a) == Len(jsonMarshal(a))

\* Mutant: an encoding of exactly MaxMessageSize bytes is refused.
Marshal_sizeOffByOne(a) ==
    IF Len(jsonMarshal(a)) >= MaxMessageSize
    THEN [data |-> <<>>, err |-> "announcement exceeds maximum size"]
    ELSE [data |-> jsonMarshal(a), err |-> "ok"]

\* LabelAnnouncement.Marshal: the data and "ok", or the error.
Marshal(a) ==
    IF Len(jsonMarshal(a)) > MaxMessageSize
    THEN [data |-> <<>>, err |-> "announcement exceeds maximum size"]
    ELSE [data |-> jsonMarshal(a), err |-> "ok"]

\* UnmarshalLabelAnnouncement: the size check, the decoding, then Validate
\* on the decoded announcement.
UnmarshalLabelAnnouncement(data) ==
    IF Len(data) > MaxMessageSize
    THEN [ann |-> NoAnnouncement, err |-> "announcement exceeds maximum size"]
    ELSE IF ~jsonUnmarshal(data).ok
    THEN [ann |-> NoAnnouncement, err |-> "failed to unmarshal label announcement"]
    ELSE IF Validate(jsonUnmarshal(data).ann) # "ok"
    THEN [ann |-> NoAnnouncement, err |-> Validate(jsonUnmarshal(data).ann)]
    ELSE [ann |-> jsonUnmarshal(data).ann, err |-> "ok"]

\* The announcements Validate is applied to.
ValidateInputs ==
    [cid : {<<>>, C1},
     peer_id : {<<>>, P1},
     labels : SeqsUpTo({LSkill, LDomain}, MaxLabelsPerAnnouncement + 1),
     timestamp : {0, 1}]

ValidateInit ==
    /\ vAnn \in ValidateInputs
    /\ vSide \in {"publish", "receive"}
    /\ vResult = "pending"
    /\ store = <<>>
    /\ SearchIdle
    /\ WireIdle
    /\ CleanupIdle
    /\ NoFaults
    /\ ScanIdle
    /\ HookIdle
    /\ NodeIdle

\* PublishLabels validates the announcement it built.
ValidateOnPublish ==
    /\ vSide = "publish"
    /\ vResult = "pending"
    /\ vResult' = Validate(vAnn)
    /\ UNCHANGED <<vAnn, vSide, store, searchVars, wireVars, faultVars,
                   scanVars, hookVars, cleanupVars, nodeVars>>

\* UnmarshalLabelAnnouncement validates the announcement it decoded.
ValidateOnReceive ==
    /\ vSide = "receive"
    /\ vResult = "pending"
    /\ vResult' = UnmarshalLabelAnnouncement(jsonMarshal(vAnn)).err
    /\ UNCHANGED <<vAnn, vSide, store, searchVars, wireVars, faultVars,
                   scanVars, hookVars, cleanupVars, nodeVars>>

ValidateNext ==
    \/ ValidateOnPublish
    \/ ValidateOnReceive

ValidateSpec == ValidateInit /\ [][ValidateNext]_vars

\* A CID string of two atoms, one with a character the encoding escapes,
\* and a label with one.
CLong == <<"c1", "x">>
CQuoted == <<"c", Quote>>
LQuoted == <<Sep, "skills", Sep, Backslash>>

\* The announcements sent over the wire.
WireAnnouncements ==
    [cid : {<<>>, C1, CLong, CQuoted},
     peer_id : {P1},
     labels : SeqsUpTo({LSkill, LDomain, LQuoted}, MaxLabelsPerAnnouncement + 1),
     timestamp : {0, 1, 2}]

\* What a remote peer can put on the wire for the announcement a: its
\* encoding whatever its size, the encoding cut short, the encoding with
\* a stray byte after it.
RemoteData(a) ==
    { jsonMarshal(a),
      SubSeq(jsonMarshal(a), 1, Len(jsonMarshal(a)) - 1),
      jsonMarshal(a) \o <<"}">> }

WireInit ==
    /\ wAnn \in WireAnnouncements
    /\ wPc = "marshal"
    /\ wLocal = FALSE
    /\ wData = <<>>
    /\ wErr = "ok"
    /\ wOut = NoAnnouncement
    /\ store = <<>>
    /\ SearchIdle
    /\ ValidateIdle
    /\ NodeIdle
    /\ CleanupIdle
    /\ NoFaults
    /\ ScanIdle
    /\ HookIdle

\* PublishLabels: announcement.Marshal(); the data returned goes to the
\* topic.
WireMarshal ==
    /\ wPc = "marshal"
    /\ wErr' = Marshal(wAnn).err
    /\ wData' = Marshal(wAnn).data
    /\ wLocal' = (Marshal(wAnn).err = "ok")
    /\ wPc' = IF Marshal(wAnn).err = "ok" THEN "wire" ELSE "refused"
    /\ UNCHANGED <<wAnn, wOut, store, searchVars, validateVars, cleanupVars,
                   faultVars, scanVars, hookVars, nodeVars>>

\* A remote peer publishes data on the topic.
WireRemoteSend ==
    /\ wPc = "marshal"
    /\ \E d \in RemoteData(wAnn) : wData' = d
    /\ wPc' = "wire"
    /\ UNCHANGED <<wAnn, wLocal, wErr, wOut, store, searchVars, validateVars,
                   cleanupVars, faultVars, scanVars, hookVars, nodeVars>>

\* handleMessages: UnmarshalLabelAnnouncement(msg.Data)
WireUnmarshal ==
    /\ wPc = "wire"
    /\ wErr' = UnmarshalLabelAnnouncement(wData).err
    /\ wOut' = UnmarshalLabelAnnouncement(wData).ann
    /\ wPc' = "done"
    /\ UNCHANGED <<wAnn, wLocal, wData, store, searchVars, validateVars,
                   cleanupVars, faultVars, scanVars, hookVars, nodeVars>>

WireNext ==
    \/ WireMarshal
    \/ WireRemoteSend
    \/ WireUnmarshal

WireSpec == WireInit /\ [][WireNext]_vars

---------------------------------------------------------------------------
(***************************************************************************)
(* The node: Publish, the gossip subscription handler and the provider-    *)
(* notification handler, on one store and one clock.                       *)
(***************************************************************************)
LLong == <<Sep, "skills", Sep, "AI", Sep, "ML">>

\* A string cid.Decode rejects.
BadCID == <<"not-a-cid">>

\* The strings cid.Decode accepts.
ValidCIDs == {C1, C2}

\* A peer_id string whose last path segment is the local PeerID.
SlashPeer == <<"x", Sep>> \o LocalPeerID

\* A label string that is a namespace without a value.
LBare == <<Sep, "skills">>

\* The local PeerID followed by a path separator.
TrailPeer == LocalPeerID \o <<Sep>>

\* The label lists GetLabelsFromRecord yields for the records published:
\* none, one, three whose encoding is too large, and one label too many.
PublishedLabelLists ==
    { <<>>,
      <<LSkill>>,
      <<LSkill, LDomain, LLong>>,
      [i \in 1..(MaxLabelsPerAnnouncement + 1) |-> LSkill] }

\* The announcements remote peers deliver.
GossipAnnouncements ==
    [cid : {C1},
     peer_id : {P1, LocalPeerID, SlashPeer, TrailPeer},
     labels : {<<LSkill>>, <<LSkill, LDomain>>, <<LBare>>},
     timestamp : {0, 1}]

\* The provider notifications the DHT's provider store pushes.
Notifications ==
    [peer : {LocalPeerID, P1}, addrs : {<<>>, <<"a1">>}, cid : {C1}]

\* What Pull and GetLabelsFromRecord yield: an error, a record without
\* labels, the labels of the record.
PullResults == {<<"error">>, <<"record">>, <<"record", LSkill, LDomain>>}

\* dstore.Put(key, value)
Put(st, k, v) == [x \in DOMAIN st \cup {k} |-> IF x = k THEN v ELSE st[x]]

\* The key of a PeerAddressRecord.
PeerAddrsKey(peer) == NewKey(<<"peer_addrs", Sep>> \o peer)

\* Mutant: the announcement is marshalled without being validated.
PublishLabels_noValidate(cid, labels, topicOk, t) ==
    LET ann == [cid |-> cid, peer_id |-> LocalPeerID, labels |-> labels,
                timestamp |-> t]
    IN  IF Marshal(ann).err # "ok" THEN [ann |-> ann, result |-> "marshal"]
        ELSE IF ~topicOk THEN [ann |-> ann, result |-> "publish"]
        ELSE [ann |-> ann, result |-> "published"]

\* Manager.PublishLabels: the announcement built and how far it got.
PublishLabels(cid, labels, topicOk, t) ==
    LET ann == [cid |-> cid, peer_id |-> LocalPeerID, labels |-> labels,
                timestamp |-> t]
    IN  IF Validate(ann) # "ok" THEN [ann |-> ann, result |-> "invalid"]
        ELSE IF Marshal(ann).err # "ok" THEN [ann |-> ann, result |-> "marshal"]
        ELSE IF ~topicOk THEN [ann |-> ann, result |-> "publish"]
        ELSE [ann |-> ann, result |-> "published"]

\* The gossip step of publishToNetwork: "disabled", "no labels" or the
\* result of PublishLabels.
GossipStep(enabled, cid, labels, topicOk, t) ==
    IF ~enabled THEN [ann |-> NoAnnouncement, result |-> "disabled"]
    ELSE IF Len(labels) = 0 THEN [ann |-> NoAnnouncement, result |-> "no labels"]
    ELSE PublishLabels(cid, labels, topicOk, t)

\* Mutant: the labels are announced whether or not the provide succeeded.
publishToNetwork_gossipFirst(enabled, cid, labels, provideOk, topicOk, t) ==
    LET g == GossipStep(enabled, cid, labels, topicOk, t)
    IN  IF cid \notin ValidCIDs
        THEN [err |-> TRUE, provide |-> FALSE, gossip |-> "not reached", ann |-> NoAnnouncement]
        ELSE [err |-> ~provideOk, provide |-> provideOk, gossip |-> g.result, ann |-> g.ann]

\* Mutant: a failed label publish is returned as the error of the publish.
publishToNetwork_gossipFatal(enabled, cid, labels, provideOk, topicOk, t) ==
    LET g == GossipStep(enabled, cid, labels, topicOk, t)
    IN  IF cid \notin ValidCIDs
        THEN [err |-> TRUE, provide |-> FALSE, gossip |-> "not reached", ann |-> NoAnnouncement]
        ELSE IF ~provideOk
        THEN [err |-> TRUE, provide |-> FALSE, gossip |-> "not reached", ann |-> NoAnnouncement]
        ELSE [err |-> g.result \in {"invalid", "marshal", "publish"},
              provide |-> TRUE, gossip |-> g.result, ann |-> g.ann]

\* routeRemote.publishToNetwork: the error returned, whether the CID was
\* provided on the DHT, and the outcome of the gossip step.
publishToNetwork(enabled, cid, labels, provideOk, topicOk, t) ==
    LET g == GossipStep(enabled, cid, labels, topicOk, t)
    IN  IF cid \notin ValidCIDs
        THEN [err |-> TRUE, provide |-> FALSE, gossip |-> "not reached", ann |-> NoAnnouncement]
        ELSE IF ~provideOk
        THEN [err |-> TRUE, provide |-> FALSE, gossip |-> "not reached", ann |-> NoAnnouncement]
        ELSE [err |-> FALSE, provide |-> TRUE, gossip |-> g.result, ann |-> g.ann]

\* PublishLabels called with the CID, the labels and the clock reading of
\* wAnn: the announcement it builds, and its data once handed to the topic.
\* time.Now() is never the zero time.
WirePublishLabels ==
    /\ wPc = "marshal"
    /\ wAnn.timestamp # 0
    /\ \E topicOk \in BOOLEAN :
         LET r == PublishLabels(wAnn.cid, wAnn.labels, topicOk, wAnn.timestamp)
             handed == r.result \in {"publish", "published"}
         IN  /\ wAnn' = r.ann
             /\ wErr' = r.result
             /\ wData' = IF handed THEN Marshal(r.ann).data ELSE <<>>
             /\ wLocal' = handed
             /\ wPc' = IF handed THEN "wire" ELSE "refused"
    /\ UNCHANGED <<wOut, store, searchVars, validateVars, cleanupVars,
                   faultVars, scanVars, hookVars, nodeVars>>

AgreeNext ==
    \/ WirePublishLabels
    \/ WireUnmarshal

\* One PublishLabels call and a receiver of what it put on the topic.
AgreeSpec == WireInit /\ [][AgreeNext]_vars

\* The node after newRemote, but for the count of its inputs.
\* newRemote has started the handlers: nothing received, nothing published.
HandlersStart ==
    /\ now = 1
    /\ gossipEnabled \in BOOLEAN
    /\ topicOwn = {}
    /\ pub = <<>>
    /\ provided = {}
    /\ gPc = "wait"
    /\ gAnn = NoAnnouncement
    /\ gNow = 0
    /\ gLabels = <<>>
    /\ notifyCh = <<>>
    /\ nPc = "wait"
    /\ nNotif = <<>>
    /\ nNow = 0
    /\ nWork = <<>>
    /\ pulled = {}
    /\ rxWritten = {}
    /\ coreDone = FALSE
    /\ subCancelled = FALSE
    /\ gErrors = 0
    /\ gLast = NoLast
    /\ nSent = <<>>
    /\ nHandled = <<>>
    /\ SearchIdle
    /\ ValidateIdle
    /\ WireIdle
    /\ ScanIdle
    /\ HookIdle

NodeStart ==
    /\ store = <<>>
    /\ HandlersStart
    /\ CleanupIdle
    /\ NoFaults

NodeInit ==
    /\ NodeStart
    /\ events = 0

\* time passes
Tick ==
    /\ now < MaxTime
    /\ now' = now + 1
    /\ UNCHANGED <<store, gossipEnabled, topicOwn, pub, provided, gPc, gAnn,
                   gNow, gLabels, notifyCh, nPc, nNotif, nNow, nWork, pulled,
                   rxWritten, events>>
    /\ UNCHANGED <<searchVars, validateVars, wireVars, faultVars, scanVars, hookVars,
                   cleanupVars, lifeVars, gLast, nSent, nHandled>>

\* routeRemote.Publish: the outcome is kept in pub; an announcement that
\* entered the topic will be delivered to the node's own subscription too.
publishRecord(cid, labels, provideOk, topicOk) ==
    LET r == publishToNetwork(gossipEnabled, cid, labels, provideOk, topicOk, now)
    IN  /\ pub' = <<[cid |-> cid, provideOk |-> provideOk, gossip |-> r.gossip,
                     err |-> r.err]>>
        /\ provided' = IF r.provide THEN provided \cup {cid} ELSE provided
        /\ topicOwn' = IF r.gossip = "published"
                       THEN topicOwn \cup {Marshal(r.ann).data}
                       ELSE topicOwn

Publish ==
    /\ events < MaxEvents
    /\ \E cid \in {C1, BadCID}, labels \in PublishedLabelLists,
          provideOk \in BOOLEAN, topicOk \in BOOLEAN :
         publishRecord(cid, labels, provideOk, topicOk)
    /\ events' = events + 1
    /\ UNCHANGED <<store, now, gossipEnabled, gPc, gAnn, gNow, gLabels, notifyCh,
                   nPc, nNotif, nNow, nWork, pulled, rxWritten>>
    /\ UNCHANGED <<searchVars, validateVars, wireVars, faultVars, scanVars, hookVars,
                   cleanupVars, lifeVars, gLast, nSent, nHandled>>

\* Mutant: a message received from the local host is decoded like any other.
ManagerAccepts_noSelfFilter(from, data) ==
    UnmarshalLabelAnnouncement(data).err = "ok"

\* handleMessages up to the callback: the message was not received from the
\* local host and its data decodes into a valid announcement.
ManagerAccepts(from, data) ==
    /\ from # LocalPeerID
    /\ UnmarshalLabelAnnouncement(data).err = "ok"

\* The self-filter of handleLabelAnnouncement.
IsOwnAnnouncement(ann) == ann.peer_id = LocalPeerID

\* One message of the subscription: dropped, or handed to
\* handleLabelAnnouncement, which reads the clock before its loop.
Deliver(from, data) ==
    LET ann == UnmarshalLabelAnnouncement(data).ann
    IN  IF ManagerAccepts(from, data) /\ ~IsOwnAnnouncement(ann)
        THEN /\ gAnn' = ann
             /\ gNow' = now
             /\ gLabels' = ann.labels
             /\ gPc' = "put"
        ELSE UNCHANGED <<gAnn, gNow, gLabels, gPc>>

\* handleMessages: the subscription delivers an announcement this node
\* published (ReceivedFrom is the local host).
GossipReceiveOwn ==
    /\ gossipEnabled
    /\ gPc = "wait"
    /\ \E data \in topicOwn :
         /\ topicOwn' = topicOwn \ {data}
         /\ Deliver(LocalPeerID, data)
    /\ UNCHANGED <<store, now, gossipEnabled, pub, provided, notifyCh, nPc,
                   nNotif, nNow, nWork, pulled, rxWritten, events>>
    /\ UNCHANGED <<searchVars, validateVars, wireVars, faultVars, scanVars, hookVars,
                   cleanupVars, lifeVars, gLast, nSent, nHandled>>

\* handleMessages: the subscription delivers a message of a remote peer.
GossipReceiveRemote ==
    /\ gossipEnabled
    /\ ~subCancelled
    /\ gPc = "wait"
    /\ events < MaxEvents
    /\ \E ann \in GossipAnnouncements : Deliver(P1, jsonMarshal(ann))
    /\ events' = events + 1
    /\ UNCHANGED <<store, now, gossipEnabled, topicOwn, pub, provided, notifyCh,
                   nPc, nNotif, nNow, nWork, pulled, rxWritten>>
    /\ UNCHANGED <<searchVars, validateVars, wireVars, faultVars, scanVars, hookVars,
                   cleanupVars, lifeVars, gLast, nSent, nHandled>>

\* The outcomes of a put: the datastore refuses one while it has failures
\* left to produce.
PutOutcomes == IF dFaults > 0 THEN BOOLEAN ELSE {TRUE}

\* Mutant: a refused put ends the loop over the labels.
RemainingLabels_abort(labels, refused) ==
    IF refused THEN <<>> ELSE Tail(labels)

\* The labels a loop has yet to store after the put of the first: a refused
\* put is logged and the loop goes on.
RemainingLabels(labels, refused) == Tail(labels)

\* Mutant: a put leaves an entry that exists as it is.
dstorePut_ifAbsent(k, v) ==
    IF k \in DOMAIN store
    THEN UNCHANGED <<store, rxWritten, faultVars>>
    ELSE /\ store' = Put(store, k, v)
         /\ rxWritten' = rxWritten \cup {k}
         /\ UNCHANGED faultVars

\* r.dstore.Put of a label entry by a receive path: the value is stored, or
\* the datastore returns an error and the store is as before.
dstorePut(k, v) ==
    \E putOk \in PutOutcomes :
      IF putOk
      THEN /\ store' = Put(store, k, v)
           /\ rxWritten' = rxWritten \cup {k}
           /\ UNCHANGED faultVars
      ELSE /\ dFaults' = dFaults - 1
           /\ dFailed' = dFailed \cup {k}
           /\ UNCHANGED <<store, rxWritten>>

\* Mutant: the entry is stamped with the receive time.
GossipMetadata_receiveTime(ann, t) == Metadata(t, t)

\* The metadata handleLabelAnnouncement stores: announced at ann.Timestamp,
\* seen at the handler's reading of the clock.
GossipMetadata(ann, t) == Metadata(ann.timestamp, t)

\* handleLabelAnnouncement: one iteration of the loop over the labels.
GossipPut ==
    /\ gPc = "put"
    /\ LET key == NewKey(BuildEnhancedLabelKey(Head(gLabels), gAnn.cid, gAnn.peer_id))
       IN  dstorePut(key, GossipMetadata(gAnn, gNow))
    /\ gLabels' = RemainingLabels(gLabels, dFaults' < dFaults)
    /\ IF gLabels' = <<>>
       THEN /\ gPc' = "wait" /\ gAnn' = NoAnnouncement /\ gNow' = 0
            /\ gLast' = [ann |-> gAnn, now |-> gNow,
                         prev |-> IF gLast.ann = gAnn THEN gLast.now ELSE 0]
       ELSE UNCHANGED <<gPc, gAnn, gNow, gLast>>
    /\ UNCHANGED <<now, gossipEnabled, topicOwn, pub, provided, notifyCh, nPc,
                   nNotif, nNow, nWork, pulled, events>>
    /\ UNCHANGED <<searchVars, validateVars, wireVars, scanVars, hookVars,
                   cleanupVars, lifeVars, nSent, nHandled>>

\* Mutant: the channel takes one notification more than its size.
ChannelHasRoom_offByOne(ch) == Len(ch) <= NotificationChannelSize

\* A send on the channel made with NotificationChannelSize slots proceeds.
ChannelHasRoom(ch) == Len(ch) < NotificationChannelSize

\* The DHT's provider store pushes a notification; a full channel blocks it.
NotifyArrive ==
    /\ events < MaxEvents
    /\ ChannelHasRoom(notifyCh)
    /\ \E n \in Notifications :
         /\ notifyCh' = Append(notifyCh, n)
         /\ nSent' = Append(nSent, n)
    /\ events' = events + 1
    /\ UNCHANGED <<store, now, gossipEnabled, topicOwn, pub, provided, gPc, gAnn,
                   gNow, gLabels, nPc, nNotif, nNow, nWork, pulled, rxWritten>>
    /\ UNCHANGED <<searchVars, validateVars, wireVars, faultVars, scanVars, hookVars,
                   cleanupVars, lifeVars, gLast, nHandled>>

\* Mutant: the addresses of the latest notification are stored.
LearnPeerAddrs_overwrite(st, n) ==
    IF Len(n.addrs) > 0 THEN Put(st, PeerAddrsKey(n.peer), n.addrs) ELSE st

\* Mutant: entries of the CID held by any peer count as cached.
hasRemoteRecordCached_anyPeer(st, cid, peer) ==
    \E k \in QueryAllNamespaces(st, FALSE).keys :
      /\ ParseEnhancedLabelKey(k).ok
      /\ ParseEnhancedLabelKey(k).cid = cid

\* Mutant: no notification counts as the node's own.
IsSelfNotification_never(n) == FALSE

\* The self-filter of handleCIDProviderNotification.
IsSelfNotification(n) == n.peer = LocalPeerID

\* hasRemoteRecordCached
hasRemoteRecordCached(st, cid, peer) ==
    \E k \in QueryAllNamespaces(st, FALSE).keys :
      /\ ParseEnhancedLabelKey(k).ok
      /\ ParseEnhancedLabelKey(k).cid = cid
      /\ ParseEnhancedLabelKey(k).peer = peer

\* The peer address learning of handleCIDProviderNotification.
LearnPeerAddrs(st, n) ==
    IF Len(n.addrs) > 0 /\ PeerAddrsKey(n.peer) \notin DOMAIN st
    THEN Put(st, PeerAddrsKey(n.peer), n.addrs)
    ELSE st

\* handleNotify takes a notification; handleCIDProviderNotification up to
\* the choice between refreshing the cached labels and pulling the record.
NotifyReceive ==
    /\ nPc = "wait"
    /\ notifyCh # <<>>
    /\ notifyCh' = Tail(notifyCh)
    /\ nHandled' = Append(nHandled, Head(notifyCh))
    /\ LET n == Head(notifyCh)
       IN  IF IsSelfNotification(n)
           THEN UNCHANGED <<store, nPc, nNotif>>
           ELSE /\ store' = LearnPeerAddrs(store, n)
                /\ nNotif' = <<n>>
                /\ nPc' = IF hasRemoteRecordCached(LearnPeerAddrs(store, n), n.cid, n.peer)
                          THEN "fast"
                          ELSE "pull"
    /\ UNCHANGED <<now, gossipEnabled, topicOwn, pub, provided, gPc, gAnn, gNow,
                   gLabels, nNow, nWork, pulled, rxWritten, events>>
    /\ UNCHANGED <<searchVars, validateVars, wireVars, faultVars, scanVars, hookVars,
                   cleanupVars, lifeVars, gLast, nSent>>

\* The orders in which a scan can return the entries S: namespace by
\* namespace, in the datastore's order inside one.
ScanOrders(S) ==
    {q \in [1..Cardinality(S) -> S] :
       /\ \A i, j \in DOMAIN q : i # j => q[i] # q[j]
       /\ \A i, j \in DOMAIN q : i < j => NsIndex(q[i].key) <= NsIndex(q[j].key)}

\* updateRemoteRecordLastSeen up to its loop: the clock, then the scan.
NotifyFastScan ==
    /\ nPc = "fast"
    /\ nNow' = now
    /\ LET n == nNotif[1]
           hits == {[key |-> k, value |-> store[k]] :
                      k \in {x \in QueryAllNamespaces(store, FALSE).keys :
                               /\ ParseEnhancedLabelKey(x).ok
                               /\ ParseEnhancedLabelKey(x).cid = n.cid
                               /\ ParseEnhancedLabelKey(x).peer = n.peer}}
       IN  \E q \in ScanOrders(hits) :
             /\ nWork' = q
             /\ nPc' = IF q = <<>> THEN "wait" ELSE "update"
             /\ nNotif' = IF q = <<>> THEN <<>> ELSE nNotif
    /\ UNCHANGED <<store, now, gossipEnabled, topicOwn, pub, provided, gPc, gAnn,
                   gNow, gLabels, notifyCh, pulled, rxWritten, events>>
    /\ UNCHANGED <<searchVars, validateVars, wireVars, faultVars, scanVars, hookVars,
                   cleanupVars, lifeVars, gLast, nSent, nHandled>>

\* A stored value that is not the encoding of a LabelMetadata.
Corrupt == [raw |-> "x"]

\* json.Unmarshal of a stored value into labels.LabelMetadata succeeds.
IsMetadata(value) == DOMAIN value = {"timestamp", "last_seen"}

\* Mutant: the helper stamps both fields.
updateLabelMetadataTimestamp_both(value, t) ==
    IF IsMetadata(value)
    THEN [err |-> FALSE, value |-> Metadata(t, t)]
    ELSE [err |-> TRUE, value |-> value]

\* updateLabelMetadataTimestamp up to its put: the value decoded and its
\* last_seen overwritten, or the error of the decoding.
updateLabelMetadataTimestamp(value, t) ==
    IF IsMetadata(value)
    THEN [err |-> FALSE, value |-> [value EXCEPT !.last_seen = t]]
    ELSE [err |-> TRUE, value |-> value]

\* updateRemoteRecordLastSeen: one iteration of the loop over the entries.
NotifyFastUpdate ==
    /\ nPc = "update"
    /\ LET e == Head(nWork)
           u == updateLabelMetadataTimestamp(e.value, nNow)
       IN  IF u.err
           THEN UNCHANGED <<store, rxWritten, faultVars>>
           ELSE dstorePut(NewKey(e.key), u.value)
    /\ nWork' = Tail(nWork)
    /\ IF Tail(nWork) = <<>>
       THEN nPc' = "wait" /\ nNotif' = <<>> /\ nNow' = 0
       ELSE UNCHANGED <<nPc, nNotif, nNow>>
    /\ UNCHANGED <<now, gossipEnabled, topicOwn, pub, provided, gPc, gAnn, gNow,
                   gLabels, notifyCh, pulled, events>>
    /\ UNCHANGED <<searchVars, validateVars, wireVars, scanVars, hookVars,
                   cleanupVars, lifeVars, gLast, nSent, nHandled>>

\* Mutant: a failed Pull is tried again.
pcAfterPull_retry(r) ==
    IF Len(r) > 1 THEN "slow" ELSE IF r = <<"error">> THEN "pull" ELSE "wait"

\* Where handleCIDProviderNotification goes after Pull and
\* GetLabelsFromRecord: into the loop over the labels, or it returns.
pcAfterPull(r) == IF Len(r) > 1 THEN "slow" ELSE "wait"

\* The pull fallback: Pull, GetLabelsFromRecord, then the clock.
NotifyPull ==
    /\ nPc = "pull"
    /\ pulled' = pulled \cup {nNotif[1].peer}
    /\ \E r \in PullResults :
         /\ nPc' = pcAfterPull(r)
         /\ IF pcAfterPull(r) = "slow"
            THEN /\ nWork' = Tail(r)
                 /\ nNow' = now
                 /\ nNotif' = nNotif
            ELSE /\ nWork' = <<>>
                 /\ nNow' = 0
                 /\ nNotif' = IF pcAfterPull(r) = "wait" THEN <<>> ELSE nNotif
    /\ UNCHANGED <<store, now, gossipEnabled, topicOwn, pub, provided, gPc, gAnn,
                   gNow, gLabels, notifyCh, rxWritten, events>>
    /\ UNCHANGED <<searchVars, validateVars, wireVars, faultVars, scanVars, hookVars,
                   cleanupVars, lifeVars, gLast, nSent, nHandled>>

\* Mutant: a pulled label is stamped as announced at time zero.
PullMetadata_zeroTimestamp(t) == Metadata(0, t)

\* The metadata the pull fallback stores: announced and seen at its reading
\* of the clock.
PullMetadata(t) == Metadata(t, t)

\* The pull fallback: one iteration of the loop over the labels.
NotifySlowPut ==
    /\ nPc = "slow"
    /\ LET n == nNotif[1]
           key == NewKey(BuildEnhancedLabelKey(Head(nWork), n.cid, n.peer))
       IN  dstorePut(key, PullMetadata(nNow))
    /\ nWork' = RemainingLabels(nWork, dFaults' < dFaults)
    /\ IF nWork' = <<>>
       THEN nPc' = "wait" /\ nNotif' = <<>> /\ nNow' = 0
       ELSE UNCHANGED <<nPc, nNotif, nNow>>
    /\ UNCHANGED <<now, gossipEnabled, topicOwn, pub, provided, gPc, gAnn, gNow,
                   gLabels, notifyCh, pulled, events>>
    /\ UNCHANGED <<searchVars, validateVars, wireVars, scanVars, hookVars,
                   cleanupVars, lifeVars, gLast, nSent, nHandled>>

\* The owner of the core context cancels it.
CancelCore ==
    /\ ~coreDone
    /\ coreDone' = TRUE
    /\ UNCHANGED <<store, now, gossipEnabled, topicOwn, pub, provided, gPc, gAnn,
                   gNow, gLabels, notifyCh, nPc, nNotif, nNow, nWork, pulled,
                   rxWritten, events, subCancelled, gErrors, gLast, nSent, nHandled>>
    /\ UNCHANGED <<searchVars, validateVars, wireVars, faultVars, scanVars, hookVars, cleanupVars>>

\* Manager.Close: the subscription is cancelled (and the topic closed).
Close ==
    /\ gossipEnabled
    /\ ~subCancelled
    /\ subCancelled' = TRUE
    /\ UNCHANGED <<store, now, gossipEnabled, topicOwn, pub, provided, gPc, gAnn,
                   gNow, gLabels, notifyCh, nPc, nNotif, nNow, nWork, pulled,
                   rxWritten, events, coreDone, gErrors, gLast, nSent, nHandled>>
    /\ UNCHANGED <<searchVars, validateVars, wireVars, faultVars, scanVars, hookVars, cleanupVars>>

\* sub.Next(m.ctx) can return an error: the context is cancelled or the
\* subscription is.
SubNextFails(ctxDone_, subDone) == ctxDone_ \/ subDone

\* Mutant: the handler takes no error of sub.Next for a shutdown.
handleMessagesExits_never(ctxDone_) == FALSE

\* handleMessages leaves its loop on an error of sub.Next: when m.ctx.Err()
\* is not nil.
handleMessagesExits(ctxDone_) == ctxDone_

\* handleMessages: sub.Next fails and the loop is left.
GossipStop ==
    /\ gossipEnabled
    /\ gPc = "wait"
    /\ SubNextFails(coreDone, subCancelled)
    /\ handleMessagesExits(coreDone)
    /\ gPc' = "stopped"
    /\ UNCHANGED <<store, now, gossipEnabled, topicOwn, pub, provided, gAnn,
                   gNow, gLabels, notifyCh, nPc, nNotif, nNow, nWork, pulled,
                   rxWritten, events, coreDone, subCancelled, gErrors, gLast,
                   nSent, nHandled>>
    /\ UNCHANGED <<searchVars, validateVars, wireVars, faultVars, scanVars, hookVars, cleanupVars>>

\* handleMessages: sub.Next fails, the error is logged and the loop goes on.
GossipNextError ==
    /\ gossipEnabled
    /\ gPc = "wait"
    /\ SubNextFails(coreDone, subCancelled)
    /\ ~handleMessagesExits(coreDone)
    /\ gErrors' = IF gErrors < MaxErrors THEN gErrors + 1 ELSE gErrors
    /\ UNCHANGED <<store, now, gossipEnabled, topicOwn, pub, provided, gPc, gAnn,
                   gNow, gLabels, notifyCh, nPc, nNotif, nNow, nWork, pulled,
                   rxWritten, events, coreDone, subCancelled, gLast, nSent,
                   nHandled>>
    /\ UNCHANGED <<searchVars, validateVars, wireVars, faultVars, scanVars, hookVars, cleanupVars>>

\* handleNotify: the select takes ctx.Done() and the handler returns.
NotifyStop ==
    /\ nPc = "wait"
    /\ coreDone
    /\ nPc' = "stopped"
    /\ UNCHANGED <<store, now, gossipEnabled, topicOwn, pub, provided, gPc, gAnn,
                   gNow, gLabels, notifyCh, nNotif, nNow, nWork, pulled,
                   rxWritten, events, coreDone, subCancelled, gErrors, gLast,
                   nSent, nHandled>>
    /\ UNCHANGED <<searchVars, validateVars, wireVars, faultVars, scanVars, hookVars, cleanupVars>>

Next ==
    \/ Tick
    \/ Publish
    \/ GossipReceiveOwn
    \/ GossipReceiveRemote
    \/ GossipPut
    \/ NotifyArrive
    \/ NotifyReceive
    \/ NotifyFastScan
    \/ NotifyFastUpdate
    \/ NotifyPull
    \/ NotifySlowPut

Init == NodeInit

Spec == Init /\ [][Next]_vars

\* The goroutine of handleMessages and the callback it runs.
GossipHandler ==
    \/ GossipPut
    \/ GossipStop
    \/ GossipNextError

\* The goroutine of handleNotify.
NotifyHandler ==
    \/ NotifyReceive
    \/ NotifyFastScan
    \/ NotifyFastUpdate
    \/ NotifyPull
    \/ NotifySlowPut
    \/ NotifyStop

\* The node with room for two inputs: one notification in the handler's
\* hands and one in the channel.
LifeInit ==
    /\ NodeStart
    /\ events = MaxEvents - 2

LifeNext ==
    \/ GossipReceiveRemote
    \/ NotifyArrive
    \/ CancelCore
    \/ Close
    \/ GossipHandler
    \/ NotifyHandler

\* The node up to its shutdown; both goroutines keep being scheduled.
LifeSpec ==
    /\ LifeInit
    /\ [][LifeNext]_vars
    /\ WF_vars(GossipHandler)
    /\ WF_vars(NotifyHandler)

\* The records the node publishes, each under its CID: one whose labels
\* fit in an announcement and one whose announcement is too large.
Records ==
    { [cid |-> C1, labels |-> <<LSkill, LDomain>>],
      [cid |-> C2, labels |-> <<LSkill, LDomain, LLong>>] }

RECURSIVE PutOwnedLabels(_, _, _, _)
\* The local half of a publish: one entry per label under the local PeerID,
\* announced and seen at the time of the publish.
PutOwnedLabels(st, cid, labels, t) ==
    IF labels = <<>>
    THEN st
    ELSE PutOwnedLabels(
           Put(st, NewKey(BuildEnhancedLabelKey(Head(labels), cid, LocalPeerID)),
               Metadata(t, t)),
           cid, Tail(labels), t)

\* A record is published: stored locally, then routeRemote.Publish.
PublishOwnRecord ==
    /\ events < MaxEvents
    /\ \E r \in Records, provideOk \in BOOLEAN, topicOk \in BOOLEAN :
         /\ store' = PutOwnedLabels(store, r.cid, r.labels, now)
         /\ publishRecord(r.cid, r.labels, provideOk, topicOk)
    /\ events' = events + 1
    /\ UNCHANGED <<now, gossipEnabled, gPc, gAnn, gNow, gLabels, notifyCh,
                   nPc, nNotif, nNow, nWork, pulled, rxWritten>>
    /\ UNCHANGED <<searchVars, validateVars, wireVars, faultVars, scanVars, hookVars,
                   cleanupVars, lifeVars, gLast, nSent, nHandled>>

\* The DHT's provider store reports the node itself as a provider of a CID
\* it announced.
NotifyOwnProvide ==
    /\ events < MaxEvents
    /\ ChannelHasRoom(notifyCh)
    /\ \E cid \in provided, addrs \in {<<>>, <<"a1">>} :
         LET n == [peer |-> LocalPeerID, addrs |-> addrs, cid |-> cid]
         IN  /\ notifyCh' = Append(notifyCh, n)
             /\ nSent' = Append(nSent, n)
    /\ events' = events + 1
    /\ UNCHANGED <<store, now, gossipEnabled, topicOwn, pub, provided, gPc, gAnn,
                   gNow, gLabels, nPc, nNotif, nNow, nWork, pulled, rxWritten>>
    /\ UNCHANGED <<searchVars, validateVars, wireVars, faultVars, scanVars, hookVars,
                   cleanupVars, lifeVars, gLast, nHandled>>

PublishNext ==
    \/ Tick
    \/ PublishOwnRecord
    \/ GossipReceiveOwn
    \/ NotifyOwnProvide
    \/ NotifyReceive

\* The node that publishes and hears only of its own publishing.
PublishSpec == NodeInit /\ [][PublishNext]_vars

---------------------------------------------------------------------------
(***************************************************************************)
(* The provider-notification handler alone, on a store that already holds  *)
(* entries: gossip is disabled and the datastore refuses nothing.          *)
(***************************************************************************)
\* The entries of the record C1 of the peer P1 and one of the peer P2.
KSkill == NewKey(BuildEnhancedLabelKey(LSkill, C1, P1))
KDomain == NewKey(BuildEnhancedLabelKey(LDomain, C1, P1))
KOther == NewKey(BuildEnhancedLabelKey(LSkill, C1, P2))

\* The store that holds the value of opt[k] under every key k for which
\* opt[k] is not empty.
StoreOf(opt) ==
    [k \in {x \in DOMAIN opt : opt[x] # <<>>} |-> opt[k][1]]

\* The stores the handler meets: of (C1, P1) no entry, one label or both
\* (one possibly with a value that does not decode), with or without an
\* entry of P2 and addresses of P1 learnt before.
NotifyStores ==
    { StoreOf((KSkill :> s) @@ (KDomain :> d) @@ (KOther :> o)
              @@ (PeerAddrsKey(P1) :> a)) :
        s \in {<<>>, <<Metadata(0, 0)>>, <<Corrupt>>},
        d \in {<<>>, <<Metadata(0, 0)>>},
        o \in {<<>>, <<Metadata(0, 0)>>},
        a \in {<<>>, << <<"a0">> >>} }

NotifyInit ==
    /\ store \in NotifyStores
    /\ HandlersStart
    /\ gossipEnabled = FALSE
    /\ events = 0
    /\ CleanupIdle
    /\ NoFaults

NotifyNext ==
    \/ Tick
    \/ NotifyArrive
    \/ NotifyReceive
    \/ NotifyFastScan
    \/ NotifyFastUpdate
    \/ NotifyPull
    \/ NotifySlowPut

NotifySpec == NotifyInit /\ [][NotifyNext]_vars

---------------------------------------------------------------------------
(***************************************************************************)
(* Both receive handlers on a datastore that refuses some puts.            *)
(***************************************************************************)
FaultInit ==
    /\ store = <<>>
    /\ HandlersStart
    /\ gossipEnabled = TRUE
    /\ events = 0
    /\ CleanupIdle
    /\ dFaults = MaxFaults
    /\ dFailed = {}

FaultNext ==
    \/ Tick
    \/ GossipReceiveRemote
    \/ GossipPut
    \/ NotifyArrive
    \/ NotifyReceive
    \/ NotifyFastScan
    \/ NotifyFastUpdate
    \/ NotifyPull
    \/ NotifySlowPut

FaultSpec == FaultInit /\ [][FaultNext]_vars

---------------------------------------------------------------------------
(***************************************************************************)
(* QueryAllNamespaces, its loop spelled out: the query of a namespace may  *)
(* fail, and the context may be found cancelled before a namespace.        *)
(***************************************************************************)
\* ctx.Err() of a cancelled context.
ContextErrors == {"context canceled", "context deadline exceeded"}

\* The NamespaceEntry values the loop appends for one namespace.
NamespaceEntries(st, ns) ==
    { [namespace |-> ns, key |-> k, value |-> st[k]] : k \in QueryPrefix(st, ns) }

\* Mutant: a cancelled call returns what it has collected.
CanceledResult_partial(entries, ctxErr) ==
    [entries |-> entries, err |-> <<"namespace query canceled: ", ctxErr>>]

\* return nil, fmt.Errorf("namespace query canceled: %w", ctx.Err())
CanceledResult(entries, ctxErr) ==
    [entries |-> {}, err |-> <<"namespace query canceled: ", ctxErr>>]

\* The loop over the namespaces from the i-th on, entries collected so far.
RECURSIVE QueryNamespacesFrom(_, _, _, _, _, _)
QueryNamespacesFrom(st, i, failing, cancelAt, ctxErr, entries) ==
    IF i > Len(Namespaces) THEN [entries |-> entries, err |-> <<>>]
    ELSE IF cancelAt # 0 /\ i >= cancelAt THEN CanceledResult(entries, ctxErr)
    ELSE IF Namespaces[i] \in failing
         THEN QueryNamespacesFrom(st, i + 1, failing, cancelAt, ctxErr, entries)
         ELSE QueryNamespacesFrom(st, i + 1, failing, cancelAt, ctxErr,
                                  entries \cup NamespaceEntries(st, Namespaces[i]))

\* A key under the modules prefix, and one under the locators prefix.
KModule == NewKey(BuildEnhancedLabelKey(<<Sep, "modules", Sep, "m">>, C1, P1))
KLocator == NewKey(BuildEnhancedLabelKey(<<Sep, "locators", Sep, "l">>, C1, P1))

\* The stores the scan runs on: label entries of each namespace and the
\* addresses of a peer, which are under no namespace.
ScanStores ==
    { [k \in ks |-> IF k = PeerAddrsKey(P1) THEN <<"a1">> ELSE Metadata(0, 0)] :
        ks \in SUBSET {KSkill, KDomain, KModule, KLocator, PeerAddrsKey(P1)} }

ScanInit ==
    /\ store \in ScanStores
    /\ qFailing \in SUBSET NamespaceSet
    /\ qCancelAt \in 0..Len(Namespaces)
    /\ qCtxErr \in IF qCancelAt = 0 THEN {"none"} ELSE ContextErrors
    /\ qPc = "idle"
    /\ qOut = <<>>
    /\ SearchIdle
    /\ ValidateIdle
    /\ WireIdle
    /\ NodeIdle
    /\ CleanupIdle
    /\ NoFaults
    /\ HookIdle

\* One call of QueryAllNamespaces.
ScanCall ==
    /\ qPc = "idle"
    /\ qPc' = "done"
    /\ qOut' = <<QueryNamespacesFrom(store, 1, qFailing, qCancelAt, qCtxErr, {})>>
    /\ UNCHANGED <<store, qFailing, qCancelAt, qCtxErr>>
    /\ UNCHANGED <<searchVars, validateVars, wireVars, nodeVars, cleanupVars,
                   faultVars, hookVars>>

ScanNext == ScanCall

ScanSpec == ScanInit /\ [][ScanNext]_vars

---------------------------------------------------------------------------
(***************************************************************************)
(* The Manager from New on: the handler goroutine runs while newRemote has *)
(* yet to install the callback.                                            *)
(***************************************************************************)
\* Announcements remote peers send: with and without a timestamp, naming a
\* remote peer or the local one.
HookAnnouncements ==
    [cid : {C1}, peer_id : {P1, LocalPeerID}, labels : {<<LSkill>>},
     timestamp : {0, 1}]

\* A valid announcement whose encoding is over MaxMessageSize.
OversizeAnnouncement ==
    [cid |-> C1, peer_id |-> P1, labels |-> <<LSkill, LDomain, LLong>>,
     timestamp |-> 1]

\* The messages of the subscription: what the local host published comes
\* back as received from itself; remote peers deliver any data.
HookMessages ==
    [from : {P1},
     data : UNION {RemoteData(a) : a \in HookAnnouncements}
              \cup {jsonMarshal(OversizeAnnouncement)}]
    \cup
    [from : {LocalPeerID},
     data : {Marshal(a).data : a \in {x \in HookAnnouncements :
                                        /\ x.peer_id = LocalPeerID
                                        /\ Validate(x) = "ok"}}]

\* What the handler's unsynchronised read of m.onLabelAnnouncement can
\* yield: nil before the write; either value after it, until the goroutine
\* has once read the written one.
CallbackReads ==
    IF ~hCallback THEN {FALSE}
    ELSE IF hVisible THEN {TRUE}
    ELSE BOOLEAN

\* New has returned: the handler goroutine is running, no callback is set.
HookInit ==
    /\ hCallback = FALSE
    /\ hVisible = FALSE
    /\ hSeen = <<>>
    /\ store = <<>>
    /\ SearchIdle
    /\ ValidateIdle
    /\ WireIdle
    /\ NodeIdle
    /\ CleanupIdle
    /\ NoFaults
    /\ ScanIdle

\* newRemote: pubsubManager.SetOnLabelAnnouncement(routeAPI.handleLabelAnnouncement)
SetOnLabelAnnouncement ==
    /\ ~hCallback
    /\ hCallback' = TRUE
    /\ UNCHANGED <<hVisible, hSeen>>
    /\ UNCHANGED <<store, searchVars, validateVars, wireVars, nodeVars,
                   cleanupVars, faultVars, scanVars>>

\* handleMessages: one iteration of the loop on a message of the
\* subscription; passed holds the announcement the callback was called with.
handleMessages ==
    /\ Len(hSeen) < MaxMessages
    /\ \E msg \in HookMessages, cb \in CallbackReads :
         LET accepted == ManagerAccepts(msg.from, msg.data)
             called == accepted /\ cb
         IN  /\ hVisible' = (hVisible \/ called)
             /\ hSeen' = Append(hSeen,
                            [from |-> msg.from, data |-> msg.data,
                             passed |-> IF called
                                        THEN <<UnmarshalLabelAnnouncement(msg.data).ann>>
                                        ELSE <<>>])
    /\ UNCHANGED hCallback
    /\ UNCHANGED <<store, searchVars, validateVars, wireVars, nodeVars,
                   cleanupVars, faultVars, scanVars>>

HookNext ==
    \/ SetOnLabelAnnouncement
    \/ handleMessages

HookSpec == HookInit /\ [][HookNext]_vars

---------------------------------------------------------------------------
(***************************************************************************)
(* The remote label cleanup task started by newRemote: on every tick of    *)
(* its ticker it scans all namespaces and deletes the stale remote         *)
(* entries, one delete per key.                                            *)
(***************************************************************************)
\* The keys a store of the cleanup specification is drawn from: entries of
\* two remote peers, an owned entry, a short key.
CleanupKeys ==
    { NewKey(BuildEnhancedLabelKey(LSkill, C1, P1)),
      NewKey(BuildEnhancedLabelKey(LDomain, C1, P2)),
      NewKey(BuildEnhancedLabelKey(LSkill, C1, LocalPeerID)),
      ShortKey }

\* The stores a run can meet: every entry was last seen at some time of
\* the clock, before or after the run's reading of it.
CleanupStores ==
    UNION { [K -> {Metadata(0, seen) : seen \in 0..MaxTime}] : K \in SUBSET CleanupKeys }

\* Mutant: an entry is stale as soon as its age reaches RemoteTTL.
IsStale_atTTL(md, t) == t - md.last_seen >= RemoteTTL

\* An entry last seen longer than RemoteTTL before t is stale.
IsStale(md, t) == t - md.last_seen > RemoteTTL

\* The keys a run marks for deletion: well-formed keys of other peers whose
\* entry is stale.
StaleRemoteKeys(st, t) ==
    { k \in QueryAllNamespaces(st, FALSE).keys :
        /\ ParseEnhancedLabelKey(k).ok
        /\ ParseEnhancedLabelKey(k).peer # LocalPeerID
        /\ IsStale(st[k], t) }

CleanupInit ==
    /\ store \in CleanupStores
    /\ cPc = "wait"
    /\ cNow = 0
    /\ cWork = {}
    /\ cBefore = <<>>
    /\ cFailed = {}
    /\ cRuns = 0
    /\ SearchIdle
    /\ ValidateIdle
    /\ WireIdle
    /\ NodeIdle
    /\ NoFaults
    /\ ScanIdle
    /\ HookIdle

\* The ticker fires: the run reads the clock and scans the namespaces.
CleanupScan ==
    /\ cPc = "wait"
    /\ cRuns < MaxRuns
    /\ cNow' = now
    /\ cBefore' = store
    /\ cFailed' = {}
    /\ cRuns' = cRuns + 1
    /\ cWork' = StaleRemoteKeys(store, now)
    /\ cPc' = IF StaleRemoteKeys(store, now) = {} THEN "wait" ELSE "delete"
    /\ UNCHANGED <<store, searchVars, validateVars, wireVars, faultVars,
                   scanVars, hookVars, nodeVars>>

\* One delete of the run; a failed delete is logged and the run goes on.
CleanupDelete ==
    /\ cPc = "delete"
    /\ \E k \in cWork, deleteOk \in BOOLEAN :
         /\ cWork' = cWork \ {k}
         /\ cPc' = IF cWork = {k} THEN "wait" ELSE "delete"
         /\ IF deleteOk
            THEN /\ store' = [x \in DOMAIN store \ {k} |-> store[x]]
                 /\ UNCHANGED cFailed
            ELSE /\ cFailed' = cFailed \cup {k}
                 /\ UNCHANGED store
    /\ UNCHANGED <<cNow, cBefore, cRuns>>
    /\ UNCHANGED <<searchVars, validateVars, wireVars, faultVars, scanVars, hookVars, nodeVars>>

CleanupNext ==
    \/ CleanupScan
    \/ CleanupDelete
    \/ Tick

CleanupSpec == CleanupInit /\ [][CleanupNext]_vars

\* The stores the cleanup task and the notification handler meet together:
\* of (C1, P1) no entry, one label or both, seen at time zero.
RaceStores ==
    { StoreOf((KSkill :> s) @@ (KDomain :> d)) :
        s \in {<<>>, <<Metadata(0, 0)>>},
        d \in {<<>>, <<Metadata(0, 0)>>} }

\* The handlers and the cleanup task have been started by newRemote.
RaceInit ==
    /\ store \in RaceStores
    /\ HandlersStart
    /\ gossipEnabled = FALSE
    /\ events = 0
    /\ NoFaults
    /\ cPc = "wait"
    /\ cNow = 0
    /\ cWork = {}
    /\ cBefore = <<>>
    /\ cFailed = {}
    /\ cRuns = 0

RaceNext ==
    \/ Tick
    \/ NotifyArrive
    \/ NotifyReceive
    \/ NotifyFastScan
    \/ NotifyFastUpdate
    \/ NotifyPull
    \/ NotifySlowPut
    \/ CleanupScan
    \/ CleanupDelete

\* The notification handler and the cleanup task on one store.
RaceSpec == RaceInit /\ [][RaceNext]_vars

---------------------------------------------------------------------------
(***************************************************************************)
(* Properties of the search engine.                                        *)
(***************************************************************************)
Range(f) == {f[i] : i \in DOMAIN f}

Max(a, b) == IF a >= b THEN a ELSE b

Min(a, b) == IF a <= b THEN a ELSE b

\* Every response sent on outCh so far, the one being sent included.
Emitted == emitted \o outCh

\* The call ran to its end on an unchanged store and was not cancelled.
SearchCompleted == sPc = "closed" /\ ~storeChanged /\ ~ctxDone

\* The labels the store holds for (cid, peer).
LabelsOf(st, cid, peer) ==
    {ParseEnhancedLabelKey(k).label :
       k \in {x \in DOMAIN st : /\ ParseEnhancedLabelKey(x).ok
                                /\ ParseEnhancedLabelKey(x).cid = cid
                                /\ ParseEnhancedLabelKey(x).peer = peer}}

\* The number of distinct queries of the request that match (cid, peer).
DistinctMatches(st, req, cid, peer) ==
    Cardinality({q \in Range(req.queries) :
                   (<<Sep, q.type, Sep>> \o q.value) \in LabelsOf(st, cid, peer)})

\* The CIDs some remote peer holds with enough matching distinct queries.
QualifyingCIDs(st, req) ==
    {ParseEnhancedLabelKey(k).cid :
       k \in {x \in DOMAIN st :
                LET p == ParseEnhancedLabelKey(x)
                IN  /\ p.ok
                    /\ p.peer # LocalPeerID
                    /\ DistinctMatches(st, req, p.cid, p.peer)
                         >= Max(1, req.min_match_score)}}

\* C1: no response of a Search call names the local PeerID as its peer,
\* whatever the store holds.
C1_NoLocalPeerInResults ==
    \A i \in 1..Len(Emitted) : Emitted[i].peer # LocalPeerID

\* C1 witness: a completed call emitted a result although the store holds
\* an owned entry that matches enough queries of the request.
C1_Witness ==
    /\ SearchCompleted
    /\ Len(emitted) >= 1
    /\ \E k \in DOMAIN store :
         LET p == ParseEnhancedLabelKey(k)
         IN  /\ p.ok
             /\ p.peer = LocalPeerID
             /\ DistinctMatches(store, sReq, p.cid, p.peer) >= sMin

\* C2: within one Search call no CID is emitted twice, also when the CID has
\* several label entries or is held by several remote peers.
C2_NoDuplicateCID ==
    \A i, j \in 1..Len(Emitted) : i # j => Emitted[i].cid # Emitted[j].cid

\* C2 witness: a completed call emitted a CID that two remote peers hold,
\* each with enough matching queries.
C2_Witness ==
    /\ SearchCompleted
    /\ \E i \in 1..Len(emitted) :
         /\ DistinctMatches(store, sReq, emitted[i].cid, P1) >= sMin
         /\ DistinctMatches(store, sReq, emitted[i].cid, P2) >= sMin

\* C3: every emitted result has match_score >= max(1, min_match_score) and
\* match_score = |match_queries|; min_match_score = 0 is searched as 1.
C3_ScoreThreshold ==
    /\ \A i \in 1..Len(Emitted) :
         /\ Emitted[i].match_score >= Max(1, sReq.min_match_score)
         /\ Emitted[i].match_score = Len(Emitted[i].match_queries)
    /\ (sPc # "call" /\ sReq.min_match_score = 0) => sMin = 1

\* C3 witness: a request with min_match_score = 0 completed with a result.
C3_Witness ==
    /\ SearchCompleted
    /\ sReq.min_match_score = 0
    /\ Len(emitted) >= 1

\* C4: repeating a query does not raise a score: match_queries holds no query
\* twice, on an unchanged store the score is the number of distinct queries
\* of the request that match the record, and a request with fewer distinct
\* queries than its threshold emits nothing.
C4_RepeatedQueriesDoNotCount ==
    /\ \A i \in 1..Len(Emitted) :
         LET r == Emitted[i]
         IN  /\ \A a, b \in 1..Len(r.match_queries) :
                   a # b => r.match_queries[a] # r.match_queries[b]
             /\ ~storeChanged =>
                   r.match_score = DistinctMatches(store, sReq, r.cid, r.peer)
    /\ Cardinality(Range(sReq.queries)) < sReq.min_match_score => Emitted = <<>>

\* C4 witness: a request of three identical queries with min_match_score = 2
\* completed on a store holding a remote record that matches the query.
C4_Witness ==
    /\ SearchCompleted
    /\ Len(sReq.queries) = 3
    /\ Cardinality(Range(sReq.queries)) = 1
    /\ sReq.min_match_score = 2
    /\ DistinctMatches(store, sReq, C1, P1) = 1
    /\ emitted = <<>>

\* C5: with limit > 0 at most limit results are emitted, and a call that
\* runs to its end on an unchanged store emits min(limit, qualifying CIDs);
\* with limit = 0 it emits every qualifying CID.
C5_Limit ==
    /\ sReq.limit > 0 => Len(Emitted) <= sReq.limit
    /\ SearchCompleted =>
         Len(emitted) =
           IF sReq.limit > 0
           THEN Min(sReq.limit, Cardinality(QualifyingCIDs(store, sReq)))
           ELSE Cardinality(QualifyingCIDs(store, sReq))

\* C5 witness: a completed call with limit = 1 on a store with two
\* qualifying CIDs.
C5_Witness ==
    /\ SearchCompleted
    /\ sReq.limit = 1
    /\ Cardinality(QualifyingCIDs(store, sReq)) = 2
    /\ Len(emitted) = 1

\* The store of the multi-query scenario: c1@p1 = [/skills/AI],
\* c2@p2 = [/skills/AI, /domains/research].
ScenarioKeys ==
    { NewKey(BuildEnhancedLabelKey(LSkill, C1, P1)),
      NewKey(BuildEnhancedLabelKey(LSkill, C2, P2)),
      NewKey(BuildEnhancedLabelKey(LDomain, C2, P2)) }

\* C6: with limit = 0 a call that runs to its end on an unchanged store
\* emits exactly the CIDs for which some remote peer's cached label set is
\* matched by at least max(1, min_match_score) distinct queries; in the
\* two-record scenario min_match_score = 2 yields only c2 with score 2 and
\* min_match_score = 1 yields both records.
C6_EmitsExactlyQualifying ==
    /\ (SearchCompleted /\ sReq.limit = 0) =>
         {emitted[i].cid : i \in 1..Len(emitted)} = QualifyingCIDs(store, sReq)
    /\ (/\ SearchCompleted
        /\ sReq.limit = 0
        /\ DOMAIN store = ScenarioKeys
        /\ sReq.queries = <<QSkill, QDomain>>) =>
         IF sReq.min_match_score = 2
         THEN emitted = <<[cid |-> C2, peer |-> P2,
                           match_queries |-> <<QSkill, QDomain>>,
                           match_score |-> 2]>>
         ELSE /\ Len(emitted) = 2
              /\ {emitted[i].cid : i \in 1..Len(emitted)} = {C1, C2}

\* C6 witness: the two-record scenario with min_match_score = 2, completed.
C6_Witness ==
    /\ SearchCompleted
    /\ sReq.limit = 0
    /\ DOMAIN store = ScenarioKeys
    /\ sReq.queries = <<QSkill, QDomain>>
    /\ sReq.min_match_score = 2
    /\ Len(emitted) = 1


\* C7: once the context passed to Search is cancelled, the output channel is
\* eventually closed, whether or not the consumer goes on receiving.
C7_CancelClosesStream == ctxDone ~> (sPc = "closed")


---------------------------------------------------------------------------
(***************************************************************************)
(* Properties of the encoding.                                             *)
(***************************************************************************)
\* C11: Marshal returns the data exactly when the encoding has at most
\* MaxMessageSize bytes, and UnmarshalLabelAnnouncement answers with the
\* size error exactly when the data has more than MaxMessageSize bytes,
\* whether or not the data could be decoded.
C11_SizeBoundary ==
    /\ wPc = "refused" => Len(jsonMarshal(wAnn)) > MaxMessageSize
    /\ (wPc \in {"wire", "done"} /\ wLocal) =>
         /\ wData = jsonMarshal(wAnn)
         /\ Len(wData) <= MaxMessageSize
    /\ wPc = "done" =>
         (wErr = "announcement exceeds maximum size" <=> Len(wData) > MaxMessageSize)

\* C11 witness: data of exactly MaxMessageSize bytes passed Marshal and
\* was accepted by UnmarshalLabelAnnouncement.
C11_Witness ==
    /\ wPc = "done"
    /\ wLocal
    /\ Len(wData) = MaxMessageSize
    /\ wErr = "ok"

\* C12: for a well-formed announcement (strings of UTF-8 text),
\* UnmarshalLabelAnnouncement of what Marshal returned succeeds and yields
\* the same cid, peer_id, labels in the same order and timestamp.
C12_RoundTrip ==
    (wPc = "done" /\ wLocal /\ Validate(wAnn) = "ok") =>
      /\ wErr = "ok"
      /\ wOut.cid = wAnn.cid
      /\ wOut.peer_id = wAnn.peer_id
      /\ wOut.labels = wAnn.labels
      /\ wOut.timestamp = wAnn.timestamp

\* C12 witness: a round trip of an announcement with two different labels
\* and a CID the encoding has to escape.
C12_Witness ==
    /\ wPc = "done"
    /\ wLocal
    /\ wErr = "ok"
    /\ wAnn.cid = CQuoted
    /\ Len(wAnn.labels) = 2
    /\ wAnn.labels[1] # wAnn.labels[2]
    /\ wOut = wAnn


\* C17: when a cleanup run has ended, an entry of the store the run scanned
\* is gone if and only if its key is a well-formed key of another peer, its
\* last_seen is more than RemoteTTL before the run's clock reading, and its
\* delete did not fail; every other entry, owned entries of any age
\* included, is present with its value unchanged, and no entry was added.
C17_CleanupDeletesOnlyStaleRemote ==
    (cRuns > 0 /\ cPc = "wait") =>
      /\ DOMAIN store \subseteq DOMAIN cBefore
      /\ \A k \in DOMAIN store : store[k] = cBefore[k]
      /\ \A k \in DOMAIN cBefore :
           k \notin DOMAIN store <=>
             /\ ParseEnhancedLabelKey(k).ok
             /\ ParseEnhancedLabelKey(k).peer # LocalPeerID
             /\ cNow - cBefore[k].last_seen > RemoteTTL
             /\ k \notin cFailed

\* A run has ended on a store that held a remote entry of age 2 * RemoteTTL,
\* an owned entry of the same age and a remote entry of age RemoteTTL: the
\* first is gone, the other two are present.
C17_Witness ==
    LET r1 == NewKey(BuildEnhancedLabelKey(LSkill, C1, P1))
        r2 == NewKey(BuildEnhancedLabelKey(LDomain, C1, P2))
        own == NewKey(BuildEnhancedLabelKey(LSkill, C1, LocalPeerID))
    IN  /\ cRuns > 0 /\ cPc = "wait"
        /\ {r1, r2, own} \subseteq DOMAIN cBefore
        /\ cNow - cBefore[r1].last_seen = 2 * RemoteTTL
        /\ cNow - cBefore[own].last_seen = 2 * RemoteTTL
        /\ cNow - cBefore[r2].last_seen = RemoteTTL
        /\ r1 \notin DOMAIN store
        /\ {r2, own} \subseteq DOMAIN store

\* The entries of st under the local PeerID for the record cid.
OwnedKeys(st, cid) ==
    { k \in QueryAllNamespaces(st, FALSE).keys :
        /\ ParseEnhancedLabelKey(k).ok
        /\ ParseEnhancedLabelKey(k).cid = cid
        /\ ParseEnhancedLabelKey(k).peer = LocalPeerID }

\* The keys a record's labels are stored under for the local PeerID.
LabelKeys(r) ==
    { NewKey(BuildEnhancedLabelKey(r.labels[i], r.cid, LocalPeerID)) :
        i \in DOMAIN r.labels }

---------------------------------------------------------------------------
(***************************************************************************)
(* Properties of the node.                                                 *)
(***************************************************************************)
\* C8: Publish returns an error exactly when the CID does not decode or the
\* DHT provide step fails; a failed gossip label publish (validation,
\* marshal or oversize, topic publish) leaves the result a success.
C8_PublishErrorOnlyOnCidOrProvide ==
    pub # <<>> =>
      (pub[1].err <=> (pub[1].cid \notin ValidCIDs \/ ~pub[1].provideOk))

\* C8 witness: a Publish whose gossip label publish failed returned success.
C8_Witness ==
    /\ pub # <<>>
    /\ pub[1].gossip \in {"invalid", "marshal", "publish"}
    /\ ~pub[1].err

\* The keys of the store that lie under a label namespace.
EnhancedKeys(st) == QueryAllNamespaces(st, FALSE).keys

\* C13: every enhanced key K of the store parses, into a label of one of the
\* four namespaces, a CID and a PeerID, and building the key from the three
\* parts gives K back.
C13_KeysWellFormed ==
    \A k \in EnhancedKeys(store) :
      /\ ParseEnhancedLabelKey(k).ok
      /\ NewKey(BuildEnhancedLabelKey(ParseEnhancedLabelKey(k).label,
                                      ParseEnhancedLabelKey(k).cid,
                                      ParseEnhancedLabelKey(k).peer)) = k

\* C14: a step never lowers the last_seen stored under an enhanced key that
\* exists before and after it.
C14_LastSeenMonotonic ==
    [][\A k \in EnhancedKeys(store) \cap EnhancedKeys(store') :
         store'[k].last_seen >= store[k].last_seen]_vars

\* The key handleLabelAnnouncement is about to store under.
GossipKey == NewKey(BuildEnhancedLabelKey(Head(gLabels), gAnn.cid, gAnn.peer_id))

\* C15: a step of the gossip handler that handles again the announcement it
\* handled last, on an entry as that handling left it, leaves the keys of
\* the store and every timestamp as they were and changes only last_seen of
\* the announced entry, to the receive time of the second handling, which
\* is not before the first.
C15_RepeatedAnnouncement ==
    [][(/\ gPc = "put"
        /\ gLabels' # gLabels
        /\ gAnn = gLast.ann
        /\ GossipKey \in DOMAIN store
        /\ store[GossipKey] = Metadata(gAnn.timestamp, gLast.now))
       => /\ DOMAIN store' = DOMAIN store
          /\ \A k \in DOMAIN store \ {GossipKey} : store'[k] = store[k]
          /\ store'[GossipKey].timestamp = store[GossipKey].timestamp
          /\ store'[GossipKey].last_seen = gNow
          /\ gNow >= gLast.now]_vars

\* C15 witness: an announcement of two labels was handled a first time and,
\* later, a second time; both entries carry the announced timestamp and the
\* second receive time.
C15_Witness ==
    /\ gPc = "wait"
    /\ Len(gLast.ann.labels) = 2
    /\ gLast.prev > 0
    /\ gLast.now > gLast.prev
    /\ \A i \in 1..2 :
         LET k == NewKey(BuildEnhancedLabelKey(gLast.ann.labels[i], gLast.ann.cid,
                                               gLast.ann.peer_id))
         IN  k \in DOMAIN store /\ store[k] = Metadata(gLast.ann.timestamp, gLast.now)

C18_HandlersStopOnCancel ==
    coreDone ~> ((gossipEnabled => gPc = "stopped") /\ nPc = "stopped")

\* C18 witness: the context was cancelled with a notification in the
\* channel, and both handlers have returned.
C18_Witness ==
    /\ coreDone
    /\ gossipEnabled
    /\ gPc = "stopped"
    /\ nPc = "stopped"
    /\ notifyCh # <<>>

\* C19: once Manager.Close has cancelled the subscription, handleMessages
\* eventually returns.
C19_CloseStopsHandler ==
    subCancelled ~> (gPc = "stopped")

\* C9: the receive paths have written no enhanced key whose trailing PeerID
\* is the local PeerID, and Pull was never invoked with the local peer as
\* its target.
C9_SelfFilter ==
    /\ \A k \in rxWritten :
         ParseEnhancedLabelKey(k).ok => ParseEnhancedLabelKey(k).peer # LocalPeerID
    /\ LocalPeerID \notin pulled


---------------------------------------------------------------------------
(***************************************************************************)
(* Properties of the wire format.                                          *)
(***************************************************************************)
\* cid, peer_id non-empty, 1 <= |labels| <= MaxLabelsPerAnnouncement and a
\* non-zero timestamp.
WellFormedFields(a) ==
    /\ a.cid # <<>>
    /\ a.peer_id # <<>>
    /\ 1 <= Len(a.labels)
    /\ Len(a.labels) <= MaxLabelsPerAnnouncement
    /\ a.timestamp # 0

\* C10: Validate accepts an announcement exactly when cid and peer_id are
\* non-empty, it has between 1 and MaxLabelsPerAnnouncement labels and its
\* timestamp is not zero, on the publish side and (for an encoding within
\* the size limit) on the receive side alike.
C10_ValidateAcceptsWellFormed ==
    /\ (vSide = "publish" /\ vResult # "pending") =>
         (vResult = "ok" <=> WellFormedFields(vAnn))
    /\ (vSide = "receive" /\ vResult # "pending"
          /\ EncodedSize(vAnn) <= MaxMessageSize) =>
         (vResult = "ok" <=> WellFormedFields(vAnn))

\* C10 witness: an announcement with exactly MaxLabelsPerAnnouncement labels
\* was accepted on the receive side.
C10_Witness ==
    /\ vSide = "receive"
    /\ Len(vAnn.labels) = MaxLabelsPerAnnouncement
    /\ vResult = "ok"

---------------------------------------------------------------------------
(***************************************************************************)
(* Properties of the provider-notification handler.                        *)
(***************************************************************************)
\* The enhanced keys of st that parse with the given CID and peer.
EntriesOf(st, cid, peer) ==
    { k \in EnhancedKeys(st) :
        /\ ParseEnhancedLabelKey(k).ok
        /\ ParseEnhancedLabelKey(k).cid = cid
        /\ ParseEnhancedLabelKey(k).peer = peer }

\* The handler takes a notification of a remote peer from the channel.
TakesRemote ==
    /\ nPc = "wait"
    /\ nHandled' # nHandled
    /\ Head(notifyCh).peer # LocalPeerID

C22_UpdateChangesOnlyLastSeen ==
    [][ (nPc = "update" /\ nWork' # nWork) =>
          LET e == Head(nWork)
          IN  IF IsMetadata(e.value)
              THEN /\ DOMAIN store' = DOMAIN store \cup {e.key}
                   /\ store'[e.key].timestamp = e.value.timestamp
                   /\ store'[e.key].last_seen = nNow
                   /\ \A k \in DOMAIN store \ {e.key} : store'[k] = store[k]
              ELSE store' = store
      ]_vars

\* The refresh met one entry with metadata and one whose value does not
\* decode: the first has a new last_seen under its old timestamp, the second
\* is as it was.
C22_Witness ==
    /\ nPc = "wait"
    /\ nHandled # <<>>
    /\ {KSkill, KDomain} \subseteq DOMAIN store
    /\ store[KSkill] = Corrupt
    /\ store[KDomain] = Metadata(0, MaxTime)

\* The labels GetLabelsFromRecord yields for the pulled record that has
\* labels.
PulledLabels == <<LSkill, LDomain>>

\* C23: the pull fallback, entered only for a remote (P, C) without an entry
\* in the store: Pull and the extraction of the labels write nothing; every
\* iteration of the loop writes the entry build(L, C, P) of the label at
\* hand with timestamp and last_seen both equal to the one clock reading of
\* the handling, and changes no other key; when the loop ends the store
\* holds exactly that entry for every label of the record.
C23_SlowPath ==
    [][ /\ (nPc = "wait" /\ nPc' = "pull") =>
             /\ EntriesOf(store, Head(notifyCh).cid, Head(notifyCh).peer) = {}
             /\ \A k \in DOMAIN store' \ {PeerAddrsKey(Head(notifyCh).peer)} :
                  k \in DOMAIN store /\ store'[k] = store[k]
        /\ (nPc = "pull" /\ nPc' # "pull") => store' = store
        /\ (nPc = "slow" /\ nWork' # nWork) =>
             LET key == NewKey(BuildEnhancedLabelKey(Head(nWork), nNotif[1].cid,
                                                     nNotif[1].peer))
             IN  /\ DOMAIN store' = DOMAIN store \cup {key}
                 /\ store'[key] = [timestamp |-> nNow, last_seen |-> nNow]
                 /\ \A k \in DOMAIN store \ {key} : store'[k] = store[k]
        /\ (nPc = "slow" /\ nPc' = "wait") =>
             /\ EntriesOf(store', nNotif[1].cid, nNotif[1].peer) =
                  { NewKey(BuildEnhancedLabelKey(PulledLabels[i], nNotif[1].cid,
                                                 nNotif[1].peer)) :
                      i \in DOMAIN PulledLabels }
             /\ \A k \in EntriesOf(store', nNotif[1].cid, nNotif[1].peer) :
                  store'[k] = [timestamp |-> nNow, last_seen |-> nNow]
      ]_vars

\* The record of (C1, P1) was pulled into a store without entries of it:
\* both labels are stored, stamped with one time, next to the addresses the
\* notification carried.
C23_Witness ==
    /\ nPc = "wait"
    /\ P1 \in pulled
    /\ {KSkill, KDomain, PeerAddrsKey(P1)} \subseteq DOMAIN store
    /\ store[KSkill] = Metadata(MaxTime, MaxTime)
    /\ store[KDomain] = Metadata(MaxTime, MaxTime)
    /\ store[PeerAddrsKey(P1)] = <<"a1">>

\* C25: when the handling of a notification of a remote (P, C) ends, other
\* than by a Pull that failed or a record without labels, the store holds
\* the entry build(L, C, P) of every label L of the record.
C25_AllLabelsAfterNotification ==
    [][ (nPc \in {"fast", "update", "slow"} /\ nPc' = "wait") =>
          \A i \in DOMAIN PulledLabels :
            NewKey(BuildEnhancedLabelKey(PulledLabels[i], nNotif[1].cid,
                                         nNotif[1].peer)) \in DOMAIN store'
      ]_vars

C28_PullOnceNoRetry ==
    [][ /\ (nPc # "pull" /\ nPc' = "pull") =>
             (nPc = "wait" /\ nHandled' # nHandled)
        /\ (nPc = "pull" /\ now' = now /\ notifyCh' = notifyCh) =>
             /\ nPc' \in {"slow", "wait"}
             /\ nNotif[1].peer \in pulled'
             /\ store' = store
             /\ nPc' = "wait" => nNotif' = <<>>
      ]_vars

\* After a Pull for P1 that wrote nothing, the handler has taken another
\* notification of (P1, C1) and is about to pull again.
C28_Witness ==
    /\ nPc = "pull"
    /\ P1 \in pulled
    /\ nNotif[1].peer = P1
    /\ Len(nHandled) >= 2
    /\ EntriesOf(store, C1, P1) = {}

---------------------------------------------------------------------------
(***************************************************************************)
(* Properties of the gossip handler's writes.                              *)
(***************************************************************************)
\* C24: the gossip handler takes up only announcements of other peers, with
\* all their labels and the clock reading of the receipt; every iteration of
\* its loop leaves under build(L, C, P) of the label at hand the timestamp
\* of the announcement and that clock reading as last_seen, whatever the
\* key held before, and leaves every other entry as it was, the entries of
\* (C, P) for other labels included; the loop ends with the last label.
C24_GossipWrite ==
    [][ /\ (gPc = "wait" /\ gPc' = "put") =>
             /\ gAnn'.peer_id # LocalPeerID
             /\ gLabels' = gAnn'.labels
             /\ gNow' = now
        /\ (gPc = "put" /\ gLabels' # gLabels) =>
             LET key == NewKey(BuildEnhancedLabelKey(Head(gLabels), gAnn.cid,
                                                     gAnn.peer_id))
             IN  /\ DOMAIN store' = DOMAIN store \cup {key}
                 /\ store'[key] = [timestamp |-> gAnn.timestamp, last_seen |-> gNow]
                 /\ \A k \in DOMAIN store \ {key} : store'[k] = store[k]
                 /\ gLabels' = Tail(gLabels)
                 /\ (gPc' = "wait") <=> (Tail(gLabels) = <<>>)
      ]_vars

\* The pull stored both labels of (C1, P1) at the latest time; an
\* announcement of the one label /skills/AI with timestamp 1, received at
\* that time, has replaced that entry and left the other as the pull wrote
\* it.
C24_Witness ==
    /\ gPc = "wait"
    /\ nPc = "wait"
    /\ gLast.ann.peer_id = P1
    /\ gLast.ann.labels = <<LSkill>>
    /\ gLast.ann.timestamp = 1
    /\ gLast.now = MaxTime
    /\ P1 \in pulled
    /\ {KSkill, KDomain} \subseteq DOMAIN store
    /\ store[KSkill] = Metadata(1, MaxTime)
    /\ store[KDomain] = Metadata(MaxTime, MaxTime)

---------------------------------------------------------------------------
(***************************************************************************)
(* Properties of the handlers running next to the cleanup task.            *)
(***************************************************************************)
\* C26: a key of a remote peer that is not in the store comes to be in it
\* only by a put of the gossip handler's loop or of the pull fallback's
\* loop; in particular the refresh of last_seen puts back no key that the
\* cleanup task deleted after the refresh had scanned it.
C26_AbsentKeyStaysAbsent ==
    [][ \A k \in EnhancedKeys(store') \ EnhancedKeys(store) :
          \/ gPc = "put" /\ gLabels' # gLabels
          \/ nPc = "slow" /\ nWork' # nWork
      ]_vars


---------------------------------------------------------------------------
(***************************************************************************)
(* Properties of the label loops on a datastore that refuses puts.         *)
(***************************************************************************)
\* The key the pull fallback's loop is about to store.
SlowKey == NewKey(BuildEnhancedLabelKey(Head(nWork), nNotif[1].cid, nNotif[1].peer))

\* C29: a put the datastore refuses, in the gossip handler's loop or in the
\* pull fallback's loop, leaves the store as it was and the loop goes on with
\* the next label; a put it accepts stores that label's entry, also after a
\* refusal; so when either loop ends, every label of the announcement or of
\* the pulled record has its entry, but for the labels whose put was refused,
\* and the handler is back waiting for its next event.
C29_LabelFailureIsolated ==
    [][ /\ (gPc = "put" /\ gLabels' # gLabels /\ dFaults' < dFaults) =>
             /\ store' = store
             /\ dFailed' = dFailed \cup {GossipKey}
             /\ gLabels' = Tail(gLabels)
             /\ (gPc' = "wait") <=> (Tail(gLabels) = <<>>)
             /\ gPc' \in {"put", "wait"}
        /\ (gPc = "put" /\ gLabels' # gLabels /\ dFaults' = dFaults) =>
             /\ GossipKey \in DOMAIN store'
             /\ store'[GossipKey] = [timestamp |-> gAnn.timestamp, last_seen |-> gNow]
        /\ (gPc = "put" /\ gPc' = "wait") =>
             \A i \in DOMAIN gAnn.labels :
               LET key == NewKey(BuildEnhancedLabelKey(gAnn.labels[i], gAnn.cid,
                                                       gAnn.peer_id))
               IN  key \in DOMAIN store' \/ key \in dFailed'
        /\ (nPc = "slow" /\ nWork' # nWork /\ dFaults' < dFaults) =>
             /\ store' = store
             /\ dFailed' = dFailed \cup {SlowKey}
             /\ nWork' = Tail(nWork)
             /\ (nPc' = "wait") <=> (Tail(nWork) = <<>>)
             /\ nPc' \in {"slow", "wait"}
        /\ (nPc = "slow" /\ nWork' # nWork /\ dFaults' = dFaults) =>
             /\ SlowKey \in DOMAIN store'
             /\ store'[SlowKey] = [timestamp |-> nNow, last_seen |-> nNow]
        /\ (nPc = "slow" /\ nPc' = "wait") =>
             \A i \in DOMAIN PulledLabels :
               LET key == NewKey(BuildEnhancedLabelKey(PulledLabels[i], nNotif[1].cid,
                                                       nNotif[1].peer))
               IN  key \in DOMAIN store' \/ key \in dFailed'
      ]_vars

\* The last announcement handled named both labels of (C1, P1) with
\* timestamp 1 and was received at time 1; the put of /skills/AI was refused
\* and the entry of /domains/research was stored; a notification of (C1, P1)
\* handled at time 2 has since refreshed that entry.
C29_Witness ==
    /\ gPc = "wait"
    /\ nPc = "wait"
    /\ gLast.ann.labels = <<LSkill, LDomain>>
    /\ gLast.ann.peer_id = P1
    /\ gLast.now = 1
    /\ dFailed = {KSkill}
    /\ KSkill \notin DOMAIN store
    /\ KDomain \in DOMAIN store
    /\ store[KDomain] = Metadata(1, 2)


---------------------------------------------------------------------------
(***************************************************************************)
(* Properties of the namespace scan.                                       *)
(***************************************************************************)
\* The namespaces whose query the call made and the datastore answered.
ScannedNamespaces ==
    { Namespaces[i] : i \in { j \in 1..Len(Namespaces) : Namespaces[j] \notin qFailing } }

\* C30: a call that finds the context cancelled before no namespace returns
\* no error and exactly the entries, with their values, of every namespace
\* whose query succeeded, whichever other namespaces failed; a call that
\* finds the context cancelled before a namespace returns an error that
\* wraps ctx.Err() and no entries.
C30_ScanSkipsFailedNamespace ==
    qPc = "done" =>
      LET out == qOut[1]
      IN  IF qCancelAt = 0
          THEN /\ out.err = <<>>
               /\ out.entries =
                    UNION { { [namespace |-> ns, key |-> k, value |-> store[k]] :
                                k \in { x \in DOMAIN store :
                                          /\ Len(x) > 3
                                          /\ SubSeq(x, 1, 3) = <<Sep, ns, Sep>> } } :
                            ns \in ScannedNamespaces }
          ELSE /\ out.err # <<>>
               /\ out.err[Len(out.err)] = qCtxErr
               /\ out.entries = {}

\* The query of the skills namespace failed, the store holds entries of
\* skills and of domains, the context was not cancelled: the call returned
\* the domains entry alone, without an error.
C30_Witness ==
    /\ qPc = "done"
    /\ qCancelAt = 0
    /\ qFailing = {"skills"}
    /\ {KSkill, KDomain} \subseteq DOMAIN store
    /\ qOut[1].err = <<>>
    /\ [namespace |-> "domains", key |-> KDomain, value |-> Metadata(0, 0)]
         \in qOut[1].entries
    /\ \A e \in qOut[1].entries : e.key # KSkill


---------------------------------------------------------------------------
(***************************************************************************)
(* Properties of a Search without queries.                                 *)
(***************************************************************************)
\* C35: a Search whose query list is empty hands no response to its output
\* channel, whatever the store holds and whatever threshold and limit the
\* request carries, and its output channel is closed in the end.
C35_EmptyQueriesEmitNothing ==
    /\ [](Len(sReq.queries) = 0 => (Emitted = <<>> /\ sPc # "send"))
    /\ (Len(sReq.queries) = 0) ~> (sPc = "closed" /\ Emitted = <<>>)

\* A call without queries, with the threshold left unset and no limit, has
\* closed its channel on a store that holds a remote entry of (C1, P1).
C35_Witness ==
    /\ Len(sReq.queries) = 0
    /\ sReq.min_match_score = 0
    /\ sReq.limit = 0
    /\ sPc = "closed"
    /\ ~ctxDone
    /\ \E k \in DOMAIN store :
         /\ ParseEnhancedLabelKey(k).ok
         /\ ParseEnhancedLabelKey(k).cid = C1
         /\ ParseEnhancedLabelKey(k).peer = P1
    /\ Emitted = <<>>


---------------------------------------------------------------------------
(***************************************************************************)
(* Properties of the order of the two announcements of one publish.        *)
(***************************************************************************)
\* The outcomes of the gossip step in which PublishLabels was called.
GossipAttempted == {"invalid", "marshal", "publish", "published"}

\* C33: data enters the topic in a publish only when gossip is enabled, the
\* CID is valid, the provide of that CID has succeeded and the announcement
\* names that CID with at least one label; PublishLabels is not called
\* before the provide has succeeded; a publish whose CID is invalid or whose
\* provide fails returns an error, never reaches the gossip step and leaves
\* the topic as it was.
C33_GossipAfterProvide ==
    [][ /\ (topicOwn' \ topicOwn # {}) =>
             /\ gossipEnabled
             /\ Len(pub') = 1
             /\ pub'[1].cid \in ValidCIDs
             /\ pub'[1].provideOk
             /\ pub'[1].cid \in provided'
             /\ pub'[1].gossip = "published"
             /\ \A d \in topicOwn' \ topicOwn :
                  /\ jsonUnmarshal(d).ok
                  /\ jsonUnmarshal(d).ann.cid = pub'[1].cid
                  /\ Len(jsonUnmarshal(d).ann.labels) >= 1
        /\ (pub' # pub /\ pub'[1].gossip \in GossipAttempted) =>
             /\ gossipEnabled
             /\ pub'[1].cid \in ValidCIDs
             /\ pub'[1].provideOk
             /\ pub'[1].cid \in provided'
        /\ (pub' # pub /\ (pub'[1].cid \notin ValidCIDs \/ ~pub'[1].provideOk)) =>
             /\ pub'[1].err
             /\ pub'[1].gossip = "not reached"
             /\ topicOwn' = topicOwn
             /\ provided' = provided
      ]_vars

\* The publish of C1 provided it on the DHT and then put its announcement
\* on the topic.
C33_Witness ==
    /\ gossipEnabled
    /\ pub = <<[cid |-> C1, provideOk |-> TRUE, gossip |-> "published", err |-> FALSE]>>
    /\ C1 \in provided
    /\ \E d \in topicOwn : jsonUnmarshal(d).ann.cid = C1


---------------------------------------------------------------------------
(***************************************************************************)
(* Properties of PublishLabels against the receiver's checks.              *)
(***************************************************************************)
\* C34: the data PublishLabels hands to the topic is the encoding of an
\* announcement that passes Validate and is within MaxMessageSize, and a
\* receiver's UnmarshalLabelAnnouncement accepts it; PublishLabels hands
\* nothing to the topic exactly when Validate or the size check of Marshal
\* refuses the announcement it built.
C34_PublishAndReceiveAgree ==
    /\ wPc \in {"wire", "done"} =>
         /\ wLocal
         /\ Validate(wAnn) = "ok"
         /\ Len(wData) <= MaxMessageSize
         /\ UnmarshalLabelAnnouncement(wData).err = "ok"
    /\ wPc = "done" => wErr = "ok"
    /\ wPc = "refused" =>
         /\ ~wLocal
         /\ wData = <<>>
         /\ wErr \in {"invalid", "marshal"}
    /\ wPc # "marshal" =>
         ((wPc = "refused") <=>
            (Validate(wAnn) # "ok" \/ EncodedSize(wAnn) > MaxMessageSize))

\* PublishLabels handed the announcement of two labels of C1 to the topic
\* and a receiver decoded that announcement from it.
C34_Witness ==
    /\ wPc = "done"
    /\ wLocal
    /\ wAnn.cid = C1
    /\ wAnn.peer_id = LocalPeerID
    /\ Len(wAnn.labels) = 2
    /\ wErr = "ok"
    /\ wOut = wAnn


---------------------------------------------------------------------------
(***************************************************************************)
(* Properties of the subscription handler and its callback.                *)
(***************************************************************************)
\* The message decodes into an announcement that passes Validate.
WellFormedData(data) ==
    /\ Len(data) <= MaxMessageSize
    /\ jsonUnmarshal(data).ok
    /\ Validate(jsonUnmarshal(data).ann) = "ok"

\* C31: the callback is called only with the announcement decoded from a
\* message that a peer other than the local host delivered and that passes
\* the size check, the decoding and Validate, whatever peer_id the
\* announcement names; a message of the local host, or one that fails a
\* check, is consumed without a call; once the handler has called the
\* callback, every valid message of a remote peer it consumes later is
\* passed on too, whatever was dropped in between.
C31_CallbackOnlyForValidRemote ==
    \A i \in DOMAIN hSeen :
      LET e == hSeen[i]
      IN  /\ e.passed # <<>> =>
               /\ e.from # LocalPeerID
               /\ WellFormedData(e.data)
               /\ e.passed = <<jsonUnmarshal(e.data).ann>>
          /\ (e.from = LocalPeerID \/ ~WellFormedData(e.data)) => e.passed = <<>>
          /\ ((\E j \in 1..(i - 1) : hSeen[j].passed # <<>>)
                /\ e.from # LocalPeerID /\ WellFormedData(e.data)) =>
               e.passed # <<>>

\* With the callback installed, the handler passed an announcement on,
\* dropped an announcement without timestamp, and then passed the next
\* message, delivered by P1 and naming the local peer in its peer_id field,
\* to the callback.
C31_Witness ==
    /\ hCallback
    /\ Len(hSeen) = 3
    /\ hSeen[1].passed # <<>>
    /\ hSeen[2].from = P1
    /\ jsonUnmarshal(hSeen[2].data).ok
    /\ jsonUnmarshal(hSeen[2].data).ann.timestamp = 0
    /\ hSeen[2].passed = <<>>
    /\ hSeen[3].from = P1
    /\ hSeen[3].passed # <<>>
    /\ hSeen[3].passed[1].peer_id = LocalPeerID

\* C32: every message a remote peer delivered and that decodes into a valid
\* announcement, once consumed by the handler, has been passed to the
\* callback.
C32_NoAnnouncementWithoutCallback ==
    \A i \in DOMAIN hSeen :
      (hSeen[i].from # LocalPeerID /\ WellFormedData(hSeen[i].data)) =>
        hSeen[i].passed # <<>>

=============================================================================
